---- MODULE Spec2Model ----
(***************************************************************************)
(* A model of parts of plcr-studio:                                         *)
(*   - the AI provider registry and its fallback orchestrator              *)
(*     (AIProviderFactory, lib/ai-providers/factory.ts), as a state        *)
(*     machine whose steps are the synchronous stretches between awaits,   *)
(*     with one call or with two calls interleaving at their awaits;       *)
(*   - the spatial relation resolver of lib/annotationParser.ts, as        *)
(*     operators applied to shapes drawn from a bounded grid;              *)
(*   - the rest of lib/annotationParser.ts: the role classifier, the       *)
(*     pipeline parseAnnotations -> analyzeAnnotationRelations and the     *)
(*     text rendering annotationsToText, applied to small canvases;        *)
(*   - the confidence score of the prompt builder;                         *)
(*   - the POST handler of app/api/generate-environment/route.ts.          *)
(* Lengths are kept exact by working in doubled units where the code       *)
(* halves a width or a height, and confidences are in hundredths.          *)
(***************************************************************************)
EXTENDS Integers, Sequences, FiniteSets, TLC

VARIABLES
    env,        \* provider types whose credential environment variable is set
    providers,  \* AIProviderFactory.providers: type -> the instance, [apiKey, client]
    pc,         \* where the executeWithFallback call stands
    preferred,  \* its preferredProvider argument
    opKind,     \* the provider method its operation calls
    chain,      \* const providers = getProviderFallbackChain(preferred)
    idx,        \* position of the for..of loop in chain
    errors,     \* const errors: ProviderError[]
    inflight,   \* provider types whose operation promise has not settled
    invoked,    \* history: provider types operation was invoked on, in order
    skipped,    \* history: provider types passed over by `continue`
    rejections, \* history: the operation rejections, [provider, message]
    outcome,    \* what the call gave its caller
    annEl,      \* the annotation's shape (ExcalidrawElement)
    imgEl,      \* the image's shape
    rel,        \* the last result of determineSpatialRelation
    elements,   \* the canvas: ExcalidrawElement[], in canvas order
    images,     \* the known image regions: ImageMetadata[]
    annotations,\* the result of parseAnnotations(elements, images)
    relations,  \* the result of analyzeAnnotationRelations
    stage,      \* how far extractSemanticAnnotations has come
    shape,      \* the shape handed to classifyAnnotationRole
    role,       \* its result, [role, confidence]
    constructed,\* per type, the constructions since the last clearCache
    clears,     \* the number of clearCache calls so far
    lastGet,    \* the latest registry operation: found a requested type cached
                \* (hit), and with a credential other than the present one (stale)
    lastNew,    \* the instance the latest direct `new XProvider(arg)` gave
    reply,      \* what the latest capability query returned
    description,\* the text annotationsToText returned
    input,      \* the PromptBuilderInput handed to calculateConfidence
    confidence, \* its result, in hundredths; -1 before the call
    defaultProvider, \* process.env.DEFAULT_AI_PROVIDER
    routePc,    \* where the POST handler of /api/generate-environment stands
    request,    \* the body of its request
    enhancedPrompt,  \* let enhancedPrompt of the handler
    response,   \* the response it gave, [code, status, ...]
    parked      \* the other executeWithFallback call, while one runs

orchVars == <<env, providers, pc, preferred, opKind, chain, idx, errors,
              inflight, invoked, skipped, rejections, outcome>>
geomVars == <<annEl, imgEl, rel>>
pipeVars == <<elements, images, annotations, relations, stage>>
roleVars == <<shape, role>>
regVars == <<constructed, clears, lastGet, lastNew, reply>>
textVars == <<description>>
promptVars == <<input, confidence>>
defaultVars == <<defaultProvider>>
routeVars == <<routePc, request, enhancedPrompt, response>>
concVars == <<parked>>
vars == <<env, providers, pc, preferred, opKind, chain, idx, errors,
          inflight, invoked, skipped, rejections, outcome, annEl, imgEl, rel,
          elements, images, annotations, relations, stage, shape, role,
          constructed, clears, lastGet, lastNew, reply, description, input,
          confidence, defaultProvider, routePc, request, enhancedPrompt,
          response, parked>>

(***************************************************************************)
(* Provider types, registry and fallback chain                             *)
(***************************************************************************)

\* type AIProviderType
AIProviderType == {"gemini", "claude", "openai", "replicate"}

\* A falsy preferredProvider (undefined, as the routes pass it when the
\* request names no provider).
Undefined == "undefined"

\* A string that is no AIProviderType; the routes cast the request's
\* provider field without validating it.
InvalidProvider == "invalid-provider"

PreferredInputs == AIProviderType \cup {Undefined, InvalidProvider}

\* private static fallbackOrder
fallbackOrder == <<"gemini", "openai", "replicate">>

\* The provider methods the routes pass to executeWithFallback.
OpKinds == {"generateText", "generateEnvironment"}

\* Array.prototype.filter(type => type !== x)
RECURSIVE FilterNot(_, _)
FilterNot(s, x) ==
    IF s = <<>> THEN <<>>
    ELSE IF Head(s) = x THEN FilterNot(Tail(s), x)
         ELSE <<Head(s)>> \o FilterNot(Tail(s), x)

\* The mutated chain: the preferred provider is put first without being
\* removed from the rest.
ChainKeepingDuplicate(p) ==
    IF p = Undefined THEN fallbackOrder ELSE <<p>> \o fallbackOrder

getProviderFallbackChain(p) ==
    IF p = Undefined THEN fallbackOrder
    ELSE <<p>> \o FilterNot(fallbackOrder, p)

\* createProvider's default branch throws.
CreateThrows(type) == type \notin AIProviderType

\* A credential value: Undefined, the empty string, or a key.
EnvKey == "sk-env"
ArgKey == "sk-arg"

\* JavaScript truthiness of a credential value
Truthy(v) == v # Undefined /\ v # ""

\* process.env.<the type's variable>; env holds the types whose variable has
\* a non-empty value.
EnvValue(type) == IF type \in env THEN EnvKey ELSE Undefined

\* new XProvider(arg): super(apiKey || process.env.X), and the SDK client is
\* made only if (this.apiKey).
NewProvider(arg, envValue) ==
    LET key == IF Truthy(arg) THEN arg ELSE envValue
    IN [apiKey |-> key, client |-> Truthy(key)]

\* createProvider: new XProvider(), without argument.
createProvider(type) == NewProvider(Undefined, EnvValue(type))

\* isConfigured answering from the environment as it is now.
isConfiguredReadingEnv(registry, type) == type \in env

\* BaseAIProvider.isConfigured on the cached instance: !!this.apiKey
isConfigured(registry, type) == Truthy(registry[type].apiKey)

\* The registry with the log of the constructions since the last clearCache
\* (for each type, whether its variable was set at each construction),
\* whether a request was answered from the cache, and whether one was so
\* answered with an instance made under another setting of the variable.
Cache == [entries |-> providers, log |-> constructed, hit |-> FALSE,
          stale |-> FALSE]

\* getProvider constructing at every request.
MustCreateAlways(entries, type) == TRUE

\* if (!this.providers.has(type))
MustCreate(entries, type) == type \notin DOMAIN entries

\* getProvider(type) on a registry
AfterGet(c, type) ==
    IF MustCreate(c.entries, type)
    THEN [entries |-> [t \in (DOMAIN c.entries) \cup {type} |->
                         IF t = type THEN createProvider(type) ELSE c.entries[t]],
          log |-> [c.log EXCEPT ![type] = Append(@, type \in env)],
          hit |-> c.hit,
          stale |-> c.stale]
    ELSE [c EXCEPT !.hit = TRUE,
                   !.stale = @ \/ (Truthy(c.entries[type].apiKey) # (type \in env))]

\* getProvider on each type of a list in turn
RECURSIVE AfterGets(_, _)
AfterGets(c, types) ==
    IF types = <<>> THEN c
    ELSE AfterGets(AfterGet(c, Head(types)), Tail(types))

\* getProvider's effect on the registry
RegistryAfterGet(type) == AfterGet(Cache, type).entries

(***************************************************************************)
(* Operation outcomes and messages                                         *)
(***************************************************************************)

\* What a provider's operation resolves to: the value identifies the
\* provider and the method that produced it.
OpResult(type, kind) == [provider |-> type, method |-> kind]

\* Messages of a rejected operation (a provider's handleError output).
NetworkErrors == {"request failed", "quota exceeded"}

ClaudeNoImageGeneration ==
    "Claude does not natively support image generation. Consider using Gemini, OpenAI, or Replicate for image generation tasks."

\* ClaudeProvider.generateEnvironment always throws
AlwaysRejects(type, kind) == type = "claude" /\ kind = "generateEnvironment"

\* getMetadata().displayName
displayName(type) ==
    CASE type = "gemini" -> "Google Gemini"
      [] type = "claude" -> "Anthropic Claude"
      [] type = "openai" -> "OpenAI"
      [] type = "replicate" -> "Replicate"

\* The context a provider method hands to handleError.
errorContext(kind) ==
    CASE kind = "generateText" -> "text generation failed"
      [] kind = "generateEnvironment" -> "environment generation failed"

\* BaseAIProvider.handleError: `${metadata.displayName} ${context}: ${error.message}`
handleError(type, kind, message) ==
    displayName(type) \o " " \o errorContext(kind) \o ": " \o message

\* Messages of the errors the providers' API clients fail with.
ApiErrors == {"API Error"}

RejectMessages(type, kind) ==
    IF AlwaysRejects(type, kind) THEN {ClaudeNoImageGeneration}
    ELSE NetworkErrors \cup {handleError(type, kind, m) : m \in ApiErrors}

UnknownTypeMessage(type) == "Unknown provider type: " \o type

\* The configuration error of getDefaultProvider.
NoProvidersConfiguredMessage ==
    "No AI providers are configured. Please set at least one API key in your environment variables."

\* errors.push({provider, error, canFallback: true})
ProviderError(type, msg) == [provider |-> type, message |-> msg]

\* `- ${e.provider}: ${e.error.message}`
ErrorLine(e) == "- " \o e.provider \o ": " \o e.message

\* Array.prototype.join
RECURSIVE Join(_, _)
Join(s, sep) ==
    IF s = <<>> THEN ""
    ELSE IF Len(s) = 1 THEN s[1]
         ELSE s[1] \o sep \o Join(Tail(s), sep)

MapErrorLines(es) == [i \in 1..Len(es) |-> ErrorLine(es[i])]

AggregateHeader == "All providers failed. Errors:\n"

AggregateMessage(es) == AggregateHeader \o Join(MapErrorLines(es), "\n")

NoOutcome == [kind |-> "none"]
Returned(v) == [kind |-> "value", value |-> v]
Thrown(m) == [kind |-> "error", message |-> m]

(***************************************************************************)
(* Spatial relation resolver (annotationParser.ts)                         *)
(*                                                                         *)
(* A shape is [type, x, y, width, height] in canvas units.  A centre       *)
(* x + width / 2 is kept doubled, 2 * x + width, so that it stays an       *)
(* integer; distances between centres are then doubled too, and are        *)
(* compared by their squares.  Confidences are in hundredths.              *)
(***************************************************************************)

\* Pitch of the grid the shapes are drawn on.
Unit == 50

\* Annotation origins range over Unit * (-PosMax .. PosMax).
PosMax == 6

\* The long side of an arrow or ellipse that reaches far from its centre.
LongSide == 400

\* if (distance < 200)
DirectionalCutoff == 200

AnnotationTypes == {"arrow", "ellipse", "rectangle", "text"}
\* An origin off the grid, at which a shape of side 2 * Unit lies over an
\* image of that side at the origin by a tenth of its width.
TenthOrigin == (Unit \div 5) - 2 * Unit
AnnotationOrigins == {Unit * i : i \in -PosMax..PosMax} \cup {TenthOrigin}
AnnotationSizes == {0, Unit, 2 * Unit, LongSide}
ImageXs == {0, Unit}
ImageYs == {0, 2 * Unit}
ImageSizes == {0, Unit, 2 * Unit}

AnnotationElements ==
    [type : AnnotationTypes, x : AnnotationOrigins, y : AnnotationOrigins,
     width : AnnotationSizes, height : AnnotationSizes]

ImageElements ==
    [type : {"image"}, x : ImageXs, y : ImageYs,
     width : ImageSizes, height : ImageSizes]

Max(a, b) == IF a >= b THEN a ELSE b
Min(a, b) == IF a <= b THEN a ELSE b

\* position: {x: element.x + element.width / 2, y: element.y + element.height / 2},
\* doubled.
Centre2(el) == [x |-> 2 * el.x + el.width, y |-> 2 * el.y + el.height]

\* The annotation parseAnnotations builds for a shape, as far as the
\* resolver reads it.
MakeAnnotation(el) == [type |-> el.type, position |-> Centre2(el)]

isPointInRect(point, rect) ==
    /\ point.x >= rect.x
    /\ point.x <= rect.x + rect.width
    /\ point.y >= rect.y
    /\ point.y <= rect.y + rect.height

\* calculateOverlap dividing by the larger of the two areas.
calculateOverlapByLarger(el1, el2) ==
    LET x1 == Max(el1.x, el2.x)
        y1 == Max(el1.y, el2.y)
        x2 == Min(el1.x + el1.width, el2.x + el2.width)
        y2 == Min(el1.y + el1.height, el2.y + el2.height)
    IN IF x2 <= x1 \/ y2 <= y1
       THEN [num |-> 0, den |-> 1]
       ELSE [num |-> (x2 - x1) * (y2 - y1),
             den |-> Max(el1.width * el1.height, el2.width * el2.height)]

\* calculateOverlap, as the fraction [num, den] it divides out.
calculateOverlap(el1, el2) ==
    LET x1 == Max(el1.x, el2.x)
        y1 == Max(el1.y, el2.y)
        x2 == Min(el1.x + el1.width, el2.x + el2.width)
        y2 == Min(el1.y + el1.height, el2.y + el2.height)
    IN IF x2 <= x1 \/ y2 <= y1
       THEN [num |-> 0, den |-> 1]
       ELSE [num |-> (x2 - x1) * (y2 - y1),
             den |-> Min(el1.width * el1.height, el2.width * el2.height)]

\* overlap > 0.1, for a fraction with a positive denominator
OverlapAboveTenth(r) == 10 * r.num > r.den

\* Square of the doubled distance between two doubled points.
Dist2Sq(p, q) == (p.x - q.x) * (p.x - q.x) + (p.y - q.y) * (p.y - q.y)

\* The arrow rule: the point (x + width, y + height) is in the image's box.
PointsTo(annotationElement, imageElement) ==
    isPointInRect([x |-> annotationElement.x + annotationElement.width,
                   y |-> annotationElement.y + annotationElement.height],
                  [x |-> imageElement.x, y |-> imageElement.y,
                   width |-> imageElement.width, height |-> imageElement.height])

\* The mutated ellipse rule: the radii of the two shapes are not compared.
EncirclesNoRadiusCheck(annotation, annotationElement, imageElement) ==
    LET annotationRadius2 == Max(annotationElement.width, annotationElement.height)
    IN Dist2Sq(annotation.position, Centre2(imageElement))
           < annotationRadius2 * annotationRadius2

\* The ellipse rule: distance < annotationRadius && imageRadius < annotationRadius,
\* the radii being half the larger side.
Encircles(annotation, annotationElement, imageElement) ==
    LET annotationRadius2 == Max(annotationElement.width, annotationElement.height)
        imageRadius2 == Max(imageElement.width, imageElement.height)
    IN /\ Dist2Sq(annotation.position, Centre2(imageElement))
              < annotationRadius2 * annotationRadius2
       /\ imageRadius2 < annotationRadius2

\* Math.atan2(dy, dx) * (180 / Math.PI) >= deg, for the four sector
\* boundaries; atan2(0, 0) is 0 and the angle of the negative x axis is 180.
AngleAtLeast(dy, dx, deg) ==
    CASE deg = -135 -> dy >= 0 \/ dx >= dy
      [] deg = -45  -> dy >= 0 \/ dx >= -dy
      [] deg = 45   -> (dy > 0 /\ dx <= dy) \/ (dy = 0 /\ dx < 0)
      [] deg = 135  -> (dy > 0 /\ dx <= -dy) \/ (dy = 0 /\ dx < 0)

\* The if / else if chain on the angle.
Direction(dy, dx) ==
    IF AngleAtLeast(dy, dx, -45) /\ ~AngleAtLeast(dy, dx, 45) THEN "right_of"
    ELSE IF AngleAtLeast(dy, dx, 45) /\ ~AngleAtLeast(dy, dx, 135) THEN "below"
    ELSE IF AngleAtLeast(dy, dx, 135) \/ ~AngleAtLeast(dy, dx, -135) THEN "left_of"
    ELSE "above"

\* The mutated resolver: the overlap test comes first.
determineSpatialRelationOverlapFirst(annotation, annotationElement, imageElement) ==
    LET c == Centre2(imageElement)
        dx == annotation.position.x - c.x
        dy == annotation.position.y - c.y
    IN IF OverlapAboveTenth(calculateOverlap(annotationElement, imageElement))
           THEN [relation |-> "overlaps", confidence |-> 80]
       ELSE IF annotation.type = "arrow" /\ PointsTo(annotationElement, imageElement)
           THEN [relation |-> "points_to", confidence |-> 95]
       ELSE IF annotation.type = "ellipse"
                 /\ Encircles(annotation, annotationElement, imageElement)
           THEN [relation |-> "encircles", confidence |-> 90]
       ELSE IF dx * dx + dy * dy < (2 * DirectionalCutoff) * (2 * DirectionalCutoff)
           THEN [relation |-> Direction(dy, dx), confidence |-> 70]
       ELSE [relation |-> "near", confidence |-> 50]

\* The mutated resolver: a distance of exactly the cutoff still gets a
\* direction.
determineSpatialRelationCutoffInclusive(annotation, annotationElement, imageElement) ==
    LET c == Centre2(imageElement)
        dx == annotation.position.x - c.x
        dy == annotation.position.y - c.y
    IN IF annotation.type = "arrow" /\ PointsTo(annotationElement, imageElement)
           THEN [relation |-> "points_to", confidence |-> 95]
       ELSE IF annotation.type = "ellipse"
                 /\ Encircles(annotation, annotationElement, imageElement)
           THEN [relation |-> "encircles", confidence |-> 90]
       ELSE IF OverlapAboveTenth(calculateOverlap(annotationElement, imageElement))
           THEN [relation |-> "overlaps", confidence |-> 80]
       ELSE IF dx * dx + dy * dy <= (2 * DirectionalCutoff) * (2 * DirectionalCutoff)
           THEN [relation |-> Direction(dy, dx), confidence |-> 70]
       ELSE [relation |-> "near", confidence |-> 50]

\* determineSpatialRelation; dx and dy are doubled, as is the cutoff they
\* are compared with.
determineSpatialRelation(annotation, annotationElement, imageElement) ==
    LET c == Centre2(imageElement)
        dx == annotation.position.x - c.x
        dy == annotation.position.y - c.y
    IN IF annotation.type = "arrow" /\ PointsTo(annotationElement, imageElement)
           THEN [relation |-> "points_to", confidence |-> 95]
       ELSE IF annotation.type = "ellipse"
                 /\ Encircles(annotation, annotationElement, imageElement)
           THEN [relation |-> "encircles", confidence |-> 90]
       ELSE IF OverlapAboveTenth(calculateOverlap(annotationElement, imageElement))
           THEN [relation |-> "overlaps", confidence |-> 80]
       ELSE IF dx * dx + dy * dy < (2 * DirectionalCutoff) * (2 * DirectionalCutoff)
           THEN [relation |-> Direction(dy, dx), confidence |-> 70]
       ELSE [relation |-> "near", confidence |-> 50]

\* No relation computed yet.
NoRel == [relation |-> "none", confidence |-> 0]

(***************************************************************************)
(* The role classifier of lib/annotationParser.ts.  A text is a string; a  *)
(* regular expression of the source is the set of strings it finds a       *)
(* match in, written out with SubSeq.                                      *)
(***************************************************************************)

\* String.prototype.toLowerCase on one character (the letters A-Z).
LowerChar(c) ==
    CASE c = "A" -> "a" [] c = "B" -> "b" [] c = "C" -> "c" [] c = "D" -> "d"
      [] c = "E" -> "e" [] c = "F" -> "f" [] c = "G" -> "g" [] c = "H" -> "h"
      [] c = "I" -> "i" [] c = "J" -> "j" [] c = "K" -> "k" [] c = "L" -> "l"
      [] c = "M" -> "m" [] c = "N" -> "n" [] c = "O" -> "o" [] c = "P" -> "p"
      [] c = "Q" -> "q" [] c = "R" -> "r" [] c = "S" -> "s" [] c = "T" -> "t"
      [] c = "U" -> "u" [] c = "V" -> "v" [] c = "W" -> "w" [] c = "X" -> "x"
      [] c = "Y" -> "y" [] c = "Z" -> "z" [] OTHER -> c

\* element.text.toLowerCase()
RECURSIVE toLowerCase(_)
toLowerCase(s) ==
    IF Len(s) = 0 THEN ""
    ELSE LowerChar(SubSeq(s, 1, 1)) \o toLowerCase(SubSeq(s, 2, Len(s)))

CharAt(s, i) == SubSeq(s, i, i)

\* The string w occurs in s starting at position i.
OccursAt(s, w, i) ==
    /\ i >= 1
    /\ i + Len(w) - 1 <= Len(s)
    /\ SubSeq(s, i, i + Len(w) - 1) = w

\* String.prototype.includes: the string w occurs somewhere in s.
Contains(s, w) == \E i \in 1..(Len(s) + 1) : OccursAt(s, w, i)

\* An unanchored alternation of literal words, e.g. /place|put|position|move/.
TestWords(s, words) == \E w \in words : \E i \in 1..Len(s) : OccursAt(s, w, i)

Digits == {"0", "1", "2", "3", "4", "5", "6", "7", "8", "9"}
\* \s, as far as the drawn texts go
WhiteSpace == {" ", "\t", "\n"}
LengthUnits == {"cm", "mm", "m", "in", "ft", "px"}

\* /\d+\s*(cm|mm|m|in|ft|px)/: a digit, any run of white space, a unit.
TestNumberUnit(s) ==
    \E i \in 1..Len(s) :
        /\ CharAt(s, i) \in Digits
        /\ \E j \in (i + 1)..Len(s) :
              /\ \A k \in (i + 1)..(j - 1) : CharAt(s, k) \in WhiteSpace
              /\ \E u \in LengthUnits : OccursAt(s, u, j)

\* /x\d+|\d+x\d+/
TestCross(s) ==
    \E i \in 1..Len(s) :
        \/ /\ CharAt(s, i) = "x"
           /\ i + 1 <= Len(s)
           /\ CharAt(s, i + 1) \in Digits
        \/ /\ CharAt(s, i) \in Digits
           /\ i + 2 <= Len(s)
           /\ CharAt(s, i + 1) = "x"
           /\ CharAt(s, i + 2) \in Digits

instructionPatterns(s) ==
    \/ TestWords(s, {"place", "put", "position", "move"})
    \/ TestWords(s, {"should", "must", "need"})
    \/ TestWords(s, {"here", "there"})
    \/ TestWords(s, {"center", "left", "right", "top", "bottom"})

measurementPatterns(s) ==
    \/ TestNumberUnit(s)
    \/ TestWords(s, {"size", "dimension", "scale"})
    \/ TestCross(s)

constraintPatterns(s) ==
    \/ TestWords(s, {"not", "don't", "avoid", "never"})
    \/ TestWords(s, {"within", "inside", "outside"})
    \/ TestWords(s, {"limit", "boundary", "edge"})

\* if (text.length < 20)
ShortTextLength == 20

\* if (area > 100000)
LargeRectangleArea == 100000

RoleOf(r, c) == [role |-> r, confidence |-> c]

\* The text branch with the measurement patterns tried before the instruction
\* patterns.
classifyTextMeasurementFirst(original) ==
    LET text == toLowerCase(original)
    IN IF measurementPatterns(text) THEN RoleOf("measurement", 85)
       ELSE IF instructionPatterns(text) THEN RoleOf("instruction", 90)
       ELSE IF constraintPatterns(text) THEN RoleOf("constraint", 80)
       ELSE IF Len(text) < ShortTextLength THEN RoleOf("reference", 60)
       ELSE RoleOf("instruction", 50)

\* The text branch of classifyAnnotationRole.
classifyText(original) ==
    LET text == toLowerCase(original)
    IN IF instructionPatterns(text) THEN RoleOf("instruction", 90)
       ELSE IF measurementPatterns(text) THEN RoleOf("measurement", 85)
       ELSE IF constraintPatterns(text) THEN RoleOf("constraint", 80)
       ELSE IF Len(text) < ShortTextLength THEN RoleOf("reference", 60)
       ELSE RoleOf("instruction", 50)

\* The rectangle branch with a large rectangle starting at the threshold.
classifyRectangleFromThreshold(element) ==
    LET area == element.width * element.height
    IN IF area >= LargeRectangleArea THEN RoleOf("constraint", 70)
       ELSE RoleOf("emphasis", 60)

\* The rectangle branch of classifyAnnotationRole.
classifyRectangle(element) ==
    LET area == element.width * element.height
    IN IF area > LargeRectangleArea THEN RoleOf("constraint", 70)
       ELSE RoleOf("emphasis", 60)

classifyAnnotationRole(element) ==
    IF element.type = "arrow" THEN RoleOf("placement_indicator", 90)
    ELSE IF element.type = "ellipse" THEN RoleOf("emphasis", 85)
    ELSE IF element.type = "text" THEN classifyText(element.text)
    ELSE IF element.type = "rectangle" THEN classifyRectangle(element)
    ELSE RoleOf("unknown", 30)

AnnotationRole == {"placement_indicator", "emphasis", "instruction",
                   "measurement", "reference", "constraint", "unknown"}

(***************************************************************************)
(* parseAnnotations and analyzeAnnotationRelations.  A canvas element is   *)
(* [id, type, x, y, width, height, text, boundElements, startBinding,      *)
(* endBinding]: boundElements is the sequence of the ids of its bindings,  *)
(* a start or end binding is the bound element's id, or Undefined.  An     *)
(* image region is [id, excalidrawElementId].  An annotation carries       *)
(* [id, type, role, position, confidence, content, targetImageId] with     *)
(* Undefined for an absent content or target; position is in doubled       *)
(* units, the metadata (stroke colour, diagonal) is not carried.           *)
(***************************************************************************)

\* Array.prototype.find answers with the first entry that passes: the least
\* of the positions that pass, 0 if none does.
First(positions) ==
    IF positions = {} THEN 0
    ELSE CHOOSE i \in positions : \A j \in positions : i <= j

\* images.find(img => img.excalidrawElementId === id)
FindImageOfElement(imgs, id) ==
    First({i \in 1..Len(imgs) : imgs[i].excalidrawElementId = id})

\* images.find(img => img.id === id)
FindImage(imgs, id) == First({i \in 1..Len(imgs) : imgs[i].id = id})

\* elements.find(el => el.id === id)
FindElement(allElements, id) ==
    First({i \in 1..Len(allElements) : allElements[i].id = id})

\* const maxDistance = 500
maxDistance == 500

\* let minDistance = Infinity
Infinity == -1

\* The test of the nearest-image loop with a cutoff of 150, below the one of
\* the directional relations.
IsNewNearestWithin150(distance2, minDistance2) ==
    /\ minDistance2 = Infinity \/ distance2 < minDistance2
    /\ distance2 < (2 * 150) * (2 * 150)

\* The test of the nearest-image loop with the cutoff itself admitted.
IsNewNearestCutoffInclusive(distance2, minDistance2) ==
    /\ minDistance2 = Infinity \/ distance2 < minDistance2
    /\ distance2 <= (2 * maxDistance) * (2 * maxDistance)

\* distance < minDistance && distance < maxDistance, on squares of doubled
\* distances.
IsNewNearest(distance2, minDistance2) ==
    /\ minDistance2 = Infinity \/ distance2 < minDistance2
    /\ distance2 < (2 * maxDistance) * (2 * maxDistance)

\* The for..of loop of findNearestImage from images[i] on; nearest is
\* [id, minDistance2].
RECURSIVE NearestFrom(_, _, _, _, _)
NearestFrom(i, element, imgs, allElements, nearest) ==
    IF i > Len(imgs) THEN nearest.id
    ELSE LET k == FindElement(allElements, imgs[i].excalidrawElementId)
         IN IF k = 0 THEN NearestFrom(i + 1, element, imgs, allElements, nearest)
            ELSE LET distance2 == Dist2Sq(Centre2(element), Centre2(allElements[k]))
                 IN IF IsNewNearest(distance2, nearest.minDistance2)
                    THEN NearestFrom(i + 1, element, imgs, allElements,
                             [id |-> imgs[i].id, minDistance2 |-> distance2])
                    ELSE NearestFrom(i + 1, element, imgs, allElements, nearest)

findNearestImage(element, imgs, allElements) ==
    NearestFrom(1, element, imgs, allElements,
                [id |-> Undefined, minDistance2 |-> Infinity])

\* The first of the binding ids that is the canvas element of a known image
\* region, as that region's id; Undefined if there is none.
FirstBoundImage(bindingIds, imgs) ==
    LET hit == First({i \in 1..Len(bindingIds) :
                         /\ bindingIds[i] # Undefined
                         /\ FindImageOfElement(imgs, bindingIds[i]) # 0})
    IN IF hit = 0 THEN Undefined
       ELSE imgs[FindImageOfElement(imgs, bindingIds[hit])].id

\* findBoundImage looking at an arrow's start and end bindings before the
\* bound elements.
findBoundImageArrowBindingsFirst(element, imgs, allElements) ==
    LET byArrow == IF element.type = "arrow"
                   THEN FirstBoundImage(<<element.startBinding, element.endBinding>>, imgs)
                   ELSE Undefined
        byBound == FirstBoundImage(element.boundElements, imgs)
    IN IF byArrow # Undefined THEN byArrow
       ELSE IF byBound # Undefined THEN byBound
       ELSE findNearestImage(element, imgs, allElements)

findBoundImage(element, imgs, allElements) ==
    LET byBound == FirstBoundImage(element.boundElements, imgs)
        byArrow == IF element.type = "arrow"
                   THEN FirstBoundImage(<<element.startBinding, element.endBinding>>, imgs)
                   ELSE Undefined
    IN IF byBound # Undefined THEN byBound
       ELSE IF byArrow # Undefined THEN byArrow
       ELSE findNearestImage(element, imgs, allElements)

\* The filter of parseAnnotations without its frame test.
isAnnotationElementKeepingFrames(el) == el.type # "image"

\* el => !isImageElement(el) && el.type !== 'frame'
isAnnotationElement(el) == el.type # "image" /\ el.type # "frame"

\* The body of the loop of parseAnnotations.
parseAnnotation(element, imgs, allElements) ==
    LET classified == classifyAnnotationRole(element)
    IN [id |-> element.id,
        type |-> element.type,
        role |-> classified.role,
        position |-> Centre2(element),
        confidence |-> classified.confidence,
        content |-> IF element.type = "text" THEN element.text ELSE Undefined,
        targetImageId |-> findBoundImage(element, imgs, allElements)]

parseAnnotations(allElements, imgs) ==
    LET annotationElements == SelectSeq(allElements, isAnnotationElement)
    IN [i \in 1..Len(annotationElements) |->
            parseAnnotation(annotationElements[i], imgs, allElements)]

Relation(annotation, image, found) ==
    [annotationId |-> annotation.id, imageId |-> image.id,
     relation |-> found.relation, confidence |-> found.confidence]

\* The targeted branch dropping a relation of confidence 0.5 or less.
targetedRelationsFiltered(annotation, imgs, allElements) ==
    LET i == FindImage(imgs, annotation.targetImageId)
        a == FindElement(allElements, annotation.id)
        e == IF i = 0 THEN 0 ELSE FindElement(allElements, imgs[i].excalidrawElementId)
    IN IF i = 0 \/ a = 0 \/ e = 0 THEN <<>>
       ELSE LET found == determineSpatialRelation(annotation, allElements[a], allElements[e])
            IN IF found.confidence > 50
               THEN <<Relation(annotation, imgs[i], found)>>
               ELSE <<>>

\* The branch of analyzeAnnotationRelations for an annotation with a target.
targetedRelations(annotation, imgs, allElements) ==
    LET i == FindImage(imgs, annotation.targetImageId)
        a == FindElement(allElements, annotation.id)
        e == IF i = 0 THEN 0 ELSE FindElement(allElements, imgs[i].excalidrawElementId)
    IN IF i = 0 \/ a = 0 \/ e = 0 THEN <<>>
       ELSE <<Relation(annotation, imgs[i],
                  determineSpatialRelation(annotation, allElements[a], allElements[e]))>>

\* if (confidence >= 0.5) in place of the source's test.
KeepNearToo(found) == found.confidence >= 50

\* if (confidence > 0.5)
Keep(found) == found.confidence > 50

\* The inner loop of the untargeted branch from images[i] on.
RECURSIVE UntargetedFrom(_, _, _, _, _)
UntargetedFrom(i, annotation, annotationElement, imgs, allElements) ==
    IF i > Len(imgs) THEN <<>>
    ELSE LET e == FindElement(allElements, imgs[i].excalidrawElementId)
             rest == UntargetedFrom(i + 1, annotation, annotationElement, imgs, allElements)
         IN IF e = 0 THEN rest
            ELSE LET found == determineSpatialRelation(annotation, annotationElement, allElements[e])
                 IN IF Keep(found)
                    THEN <<Relation(annotation, imgs[i], found)>> \o rest
                    ELSE rest

\* The branch of analyzeAnnotationRelations for an annotation without target.
untargetedRelations(annotation, imgs, allElements) ==
    LET a == FindElement(allElements, annotation.id)
    IN IF a = 0 THEN <<>>
       ELSE UntargetedFrom(1, annotation, allElements[a], imgs, allElements)

\* The outer loop of analyzeAnnotationRelations from annotations[n] on.
RECURSIVE RelationsFrom(_, _, _, _)
RelationsFrom(n, anns, imgs, allElements) ==
    IF n > Len(anns) THEN <<>>
    ELSE (IF anns[n].targetImageId # Undefined
          THEN targetedRelations(anns[n], imgs, allElements)
          ELSE untargetedRelations(anns[n], imgs, allElements))
         \o RelationsFrom(n + 1, anns, imgs, allElements)

analyzeAnnotationRelations(anns, imgs, allElements) ==
    RelationsFrom(1, anns, imgs, allElements)

\* relation.relation.replace(/_/g, ' ')
RECURSIVE replaceUnderscores(_)
replaceUnderscores(s) ==
    IF Len(s) = 0 THEN ""
    ELSE (IF SubSeq(s, 1, 1) = "_" THEN " " ELSE SubSeq(s, 1, 1))
         \o replaceUnderscores(SubSeq(s, 2, Len(s)))

\* descriptions.join('\n')
RECURSIVE join(_)
join(lines) ==
    IF Len(lines) = 0 THEN ""
    ELSE IF Len(lines) = 1 THEN lines[1]
    ELSE lines[1] \o "\n" \o join(Tail(lines))

\* The instruction line with the content as the classifier read it, lowered.
instructionLineLowered(content) ==
    "User instruction: \"" \o toLowerCase(content) \o "\""

\* `User instruction: "${annotation.content}"`
instructionLine(content) == "User instruction: \"" \o content \o "\""

\* The body of the loop of annotationsToText: the lines one annotation adds.
describeAnnotation(annotation, rels) ==
    LET relatedRelations == SelectSeq(rels, LAMBDA r : r.annotationId = annotation.id)
    IN IF annotation.role = "instruction" /\ Truthy(annotation.content)
       THEN <<instructionLine(annotation.content)>>
       ELSE IF annotation.role = "placement_indicator" /\ Len(relatedRelations) > 0
       THEN <<"Placement arrow " \o replaceUnderscores(relatedRelations[1].relation)
                \o " product">>
       ELSE IF annotation.role = "emphasis" /\ Len(relatedRelations) > 0
       THEN <<"Area of emphasis marked on image">>
       ELSE IF annotation.role = "measurement" /\ Truthy(annotation.content)
       THEN <<"Measurement note: \"" \o annotation.content \o "\"">>
       ELSE IF annotation.role = "constraint" /\ Truthy(annotation.content)
       THEN <<"Constraint: \"" \o annotation.content \o "\"">>
       ELSE <<>>

\* The loop of annotationsToText from annotations[n] on.
RECURSIVE DescriptionsFrom(_, _, _)
DescriptionsFrom(n, anns, rels) ==
    IF n > Len(anns) THEN <<>>
    ELSE describeAnnotation(anns[n], rels) \o DescriptionsFrom(n + 1, anns, rels)

annotationsToText(anns, rels) == join(DescriptionsFrom(1, anns, rels))

(***************************************************************************)
(* The confidence score of the prompt builder (lib/promptBuilder).  Scores *)
(* are counted in hundredths: 0.5 is 50, 0.05 is 5.                        *)
(***************************************************************************)

\* input.userDescription && input.userDescription.length >= 10
HasDescriptionFromTen(in) ==
    Truthy(in.userDescription) /\ Len(in.userDescription) >= 10

\* input.userDescription && input.userDescription.length > 10
HasDescription(in) ==
    Truthy(in.userDescription) /\ Len(in.userDescription) > 10

\* input.annotations && input.annotations.length > 0
HasAnnotations(in) ==
    in.annotations # Undefined /\ Len(in.annotations) > 0

\* input.productImages?.some(p => p.productMetadata)
HasProductMetadata(in) ==
    /\ in.productImages # Undefined
    /\ \E i \in 1..Len(in.productImages) : in.productImages[i].productMetadata

calculateConfidence(in) ==
    LET base == 50
        s1 == base + (IF HasDescription(in) THEN 20 ELSE 0)
        s2 == s1 + (IF HasAnnotations(in) THEN 10 ELSE 0)
        s3 == s2 + (IF HasProductMetadata(in) THEN 10 ELSE 0)
        s4 == s3 + (IF Truthy(in.lightingPreset) THEN 5 ELSE 0)
        s5 == s4 + (IF Truthy(in.stylePreset) THEN 5 ELSE 0)
    IN Min(s5, 100)

(***************************************************************************)
(* Each part at rest, and the resolver's specification                     *)
(***************************************************************************)

\* No role computed yet.
NoRole == [role |-> "none", confidence |-> 0]

\* The classifier's shape while another part is exercised.
RestShape == [type |-> "rectangle", width |-> 0, height |-> 0, text |-> ""]

ClassifierAtRest ==
    /\ shape = RestShape
    /\ role = NoRole

\* The describer while another part is exercised: no text produced.
DescriberAtRest == description = ""

\* DEFAULT_AI_PROVIDER is not set.
DefaultProviderUnset == defaultProvider = Undefined

\* No response given.
NoResponse == [status |-> "none"]

\* No request received.
NoRequest == [malformed |-> FALSE, prompt |-> Undefined, provider |-> Undefined]

\* The route while another part is exercised: no request.
RouteAtRest ==
    /\ routePc = "idle"
    /\ request = NoRequest
    /\ enhancedPrompt = Undefined
    /\ response = NoResponse

\* A call as its local state: the arguments, the loop's position, the errors
\* array and the histories.
CallState(cPc, cPreferred, cOpKind, cChain, cIdx, cErrors, cInflight, cInvoked, cSkipped, cRejections, cOutcome) ==
    [pc |-> cPc, preferred |-> cPreferred, opKind |-> cOpKind, chain |-> cChain,
     idx |-> cIdx, errors |-> cErrors, inflight |-> cInflight,
     invoked |-> cInvoked, skipped |-> cSkipped, rejections |-> cRejections,
     outcome |-> cOutcome]

IdleCall ==
    CallState("idle", Undefined, "generateText", <<>>, 1, <<>>, {}, <<>>, <<>>,
              <<>>, NoOutcome)

\* No second call.
NoParkedCall == parked = IdleCall

\* No score computed yet.
NoConfidence == -1

\* An input with nothing filled in.
EmptyInput ==
    [userDescription |-> Undefined, annotations |-> Undefined,
     productImages |-> Undefined, lightingPreset |-> Undefined,
     stylePreset |-> Undefined]

\* The prompt builder while another part is exercised.
PromptBuilderAtRest ==
    /\ input = EmptyInput
    /\ confidence = NoConfidence

\* The pipeline while another part is exercised: nothing handed to it.
PipelineAtRest ==
    /\ elements = <<>>
    /\ images = <<>>
    /\ annotations = <<>>
    /\ relations = <<>>
    /\ stage = "rest"

\* A square shape at the origin, the resolver's shapes while another part is
\* exercised.
RestEl == [type |-> "rectangle", x |-> 0, y |-> 0, width |-> 0, height |-> 0]

ResolverAtRest ==
    /\ annEl = RestEl
    /\ imgEl = RestEl
    /\ rel = NoRel

\* One evaluation of determineSpatialRelation on the drawn shapes.
Determine ==
    /\ rel = NoRel
    /\ rel' = determineSpatialRelation(MakeAnnotation(annEl), annEl, imgEl)
    /\ UNCHANGED <<annEl, imgEl>>

\* No request, no instance, no query yet.
NoGet == [hit |-> FALSE, stale |-> FALSE]
NoInstance == [apiKey |-> Undefined, client |-> FALSE, type |-> "none"]
NoReply == [query |-> "none"]

\* The registry's bookkeeping at start-up.
RegistryAtStart ==
    /\ constructed = [t \in AIProviderType |-> <<>>]
    /\ clears = 0
    /\ lastGet = NoGet
    /\ lastNew = NoInstance
    /\ reply = NoReply

\* The orchestrator at rest, its state while another part is exercised.
OrchestratorAtRest ==
    /\ RegistryAtStart
    /\ env = {}
    /\ providers = <<>>
    /\ pc = "idle"
    /\ preferred = Undefined
    /\ opKind = "generateText"
    /\ chain = <<>>
    /\ idx = 1
    /\ errors = <<>>
    /\ inflight = {}
    /\ invoked = <<>>
    /\ skipped = <<>>
    /\ rejections = <<>>
    /\ outcome = NoOutcome

InitRel ==
    /\ OrchestratorAtRest
    /\ PipelineAtRest
    /\ ClassifierAtRest
    /\ NoParkedCall
    /\ RouteAtRest
    /\ DefaultProviderUnset
    /\ PromptBuilderAtRest
    /\ DescriberAtRest
    /\ annEl \in AnnotationElements
    /\ imgEl \in ImageElements
    /\ rel = NoRel

NextRel == Determine /\ UNCHANGED <<orchVars, pipeVars, roleVars, concVars, routeVars, defaultVars, promptVars, textVars, regVars>>

SpecRel == InitRel /\ [][NextRel]_vars

(***************************************************************************)
(* executeWithFallback, one action per synchronous stretch                 *)
(***************************************************************************)

\* executeWithFallback(p, operation): errors = [], the chain is computed.
Call(p, k) ==
    /\ pc \in {"idle", "returned", "thrown"}
    /\ preferred' = p
    /\ opKind' = k
    /\ errors' = <<>>
    /\ chain' = getProviderFallbackChain(p)
    /\ idx' = 1
    /\ pc' = "loop"
    /\ inflight' = {}
    /\ invoked' = <<>>
    /\ skipped' = <<>>
    /\ rejections' = <<>>
    /\ outcome' = NoOutcome
    /\ UNCHANGED <<env, providers>>

\* The mutated iteration: the throw of createProvider for an unknown type is
\* not caught and ends the call.
IterCreateThrowsAborts ==
    /\ pc = "loop"
    /\ idx <= Len(chain)
    /\ chain[idx] \notin DOMAIN providers
    /\ CreateThrows(chain[idx])
    /\ outcome' = Thrown(UnknownTypeMessage(chain[idx]))
    /\ pc' = "thrown"
    /\ UNCHANGED <<env, providers, preferred, opKind, chain, idx, errors,
                   inflight, invoked, skipped, rejections>>

\* A loop iteration in which getProvider throws: the catch records it.
IterCreateThrows ==
    /\ pc = "loop"
    /\ idx <= Len(chain)
    /\ chain[idx] \notin DOMAIN providers
    /\ CreateThrows(chain[idx])
    /\ errors' = Append(errors,
                        ProviderError(chain[idx], UnknownTypeMessage(chain[idx])))
    /\ idx' = idx + 1
    /\ UNCHANGED <<env, providers, pc, preferred, opKind, chain, inflight,
                   invoked, skipped, rejections, outcome>>

\* The mutated skip: the unconfigured provider is recorded as a failure, as
\* if the operation had been left to fail on the missing key.
IterSkipRecordsFailure ==
    /\ pc = "loop"
    /\ idx <= Len(chain)
    /\ ~CreateThrows(chain[idx])
    /\ providers' = RegistryAfterGet(chain[idx])
    /\ ~isConfigured(providers', chain[idx])
    /\ skipped' = Append(skipped, chain[idx])
    /\ errors' = Append(errors, ProviderError(chain[idx], "API key not configured"))
    /\ idx' = idx + 1
    /\ UNCHANGED <<env, pc, preferred, opKind, chain, inflight, invoked,
                   rejections, outcome>>

\* A loop iteration on a provider that is not configured: continue.
IterSkip ==
    /\ pc = "loop"
    /\ idx <= Len(chain)
    /\ ~CreateThrows(chain[idx])
    /\ providers' = RegistryAfterGet(chain[idx])
    /\ ~isConfigured(providers', chain[idx])
    /\ skipped' = Append(skipped, chain[idx])
    /\ idx' = idx + 1
    /\ UNCHANGED <<env, pc, preferred, opKind, chain, errors, inflight,
                   invoked, rejections, outcome>>

\* The mutated iteration: the operation is started and the loop goes on
\* without awaiting it.
IterInvokeNoAwait ==
    /\ pc = "loop"
    /\ idx <= Len(chain)
    /\ ~CreateThrows(chain[idx])
    /\ providers' = RegistryAfterGet(chain[idx])
    /\ isConfigured(providers', chain[idx])
    /\ inflight' = inflight \cup {chain[idx]}
    /\ invoked' = Append(invoked, chain[idx])
    /\ idx' = idx + 1
    /\ UNCHANGED <<env, pc, preferred, opKind, chain, errors, skipped,
                   rejections, outcome>>

\* A loop iteration on a configured provider, up to the await.
IterInvoke ==
    /\ pc = "loop"
    /\ idx <= Len(chain)
    /\ ~CreateThrows(chain[idx])
    /\ providers' = RegistryAfterGet(chain[idx])
    /\ isConfigured(providers', chain[idx])
    /\ inflight' = inflight \cup {chain[idx]}
    /\ invoked' = Append(invoked, chain[idx])
    /\ pc' = "awaiting"
    /\ UNCHANGED <<env, preferred, opKind, chain, idx, errors, skipped,
                   rejections, outcome>>

\* The awaited operation resolves: return its value.
OpResolve ==
    /\ pc = "awaiting"
    /\ ~AlwaysRejects(chain[idx], opKind)
    /\ inflight' = inflight \ {chain[idx]}
    /\ outcome' = Returned(OpResult(chain[idx], opKind))
    /\ pc' = "returned"
    /\ UNCHANGED <<env, providers, preferred, opKind, chain, idx, errors,
                   invoked, skipped, rejections>>

\* The mutated catch: the failure is recorded and the same provider is
\* tried again.
OpRejectRetry(msg) ==
    /\ pc = "awaiting"
    /\ msg \in RejectMessages(chain[idx], opKind)
    /\ inflight' = inflight \ {chain[idx]}
    /\ errors' = Append(errors, ProviderError(chain[idx], msg))
    /\ rejections' = Append(rejections, ProviderError(chain[idx], msg))
    /\ pc' = "loop"
    /\ UNCHANGED <<env, providers, preferred, opKind, chain, idx, invoked,
                   skipped, outcome>>

\* The mutated catch: a capability error is not a reason to fall back and
\* is thrown to the caller.
OpRejectCapabilityFatal(msg) ==
    /\ pc = "awaiting"
    /\ msg \in RejectMessages(chain[idx], opKind)
    /\ inflight' = inflight \ {chain[idx]}
    /\ errors' = Append(errors, ProviderError(chain[idx], msg))
    /\ rejections' = Append(rejections, ProviderError(chain[idx], msg))
    /\ IF msg = ClaudeNoImageGeneration
          THEN /\ pc' = "thrown"
               /\ outcome' = Thrown(msg)
               /\ idx' = idx
          ELSE /\ pc' = "loop"
               /\ outcome' = outcome
               /\ idx' = idx + 1
    /\ UNCHANGED <<env, providers, preferred, opKind, chain, invoked, skipped>>

\* The awaited operation rejects: the catch records it and the loop goes on.
OpReject(msg) ==
    /\ pc = "awaiting"
    /\ msg \in RejectMessages(chain[idx], opKind)
    /\ inflight' = inflight \ {chain[idx]}
    /\ errors' = Append(errors, ProviderError(chain[idx], msg))
    /\ rejections' = Append(rejections, ProviderError(chain[idx], msg))
    /\ idx' = idx + 1
    /\ pc' = "loop"
    /\ UNCHANGED <<env, providers, preferred, opKind, chain, invoked, skipped,
                   outcome>>

\* The mutated throw: the last recorded error is thrown again as it is.
ExhaustedRethrowsLast ==
    /\ pc = "loop"
    /\ idx > Len(chain)
    /\ outcome' = IF errors = <<>> THEN Thrown(AggregateMessage(errors))
                  ELSE Thrown(errors[Len(errors)].message)
    /\ pc' = "thrown"
    /\ UNCHANGED <<env, providers, preferred, opKind, chain, idx, errors,
                   inflight, invoked, skipped, rejections>>

\* The mutated throw: the call gives up on an operation that has not settled
\* and throws the aggregate, as a timeout would.
ExhaustedOrTimedOut ==
    /\ \/ pc = "loop" /\ idx > Len(chain)
       \/ pc = "awaiting"
    /\ outcome' = Thrown(AggregateMessage(errors))
    /\ pc' = "thrown"
    /\ UNCHANGED <<env, providers, preferred, opKind, chain, idx, errors,
                   inflight, invoked, skipped, rejections>>

\* The loop ends without a return: throw the aggregate error.
Exhausted ==
    /\ pc = "loop"
    /\ idx > Len(chain)
    /\ outcome' = Thrown(AggregateMessage(errors))
    /\ pc' = "thrown"
    /\ UNCHANGED <<env, providers, preferred, opKind, chain, idx, errors,
                   inflight, invoked, skipped, rejections>>

Init ==
    /\ env \in SUBSET AIProviderType
    /\ providers = <<>>
    /\ pc = "idle"
    /\ preferred = Undefined
    /\ opKind = "generateText"
    /\ chain = <<>>
    /\ idx = 1
    /\ errors = <<>>
    /\ inflight = {}
    /\ invoked = <<>>
    /\ skipped = <<>>
    /\ rejections = <<>>
    /\ outcome = NoOutcome
    /\ RegistryAtStart
    /\ ResolverAtRest
    /\ PipelineAtRest
    /\ ClassifierAtRest
    /\ NoParkedCall
    /\ RouteAtRest
    /\ DefaultProviderUnset
    /\ PromptBuilderAtRest
    /\ DescriberAtRest

\* The variables executeWithFallback leaves alone.
asideVars == <<geomVars, pipeVars, roleVars, concVars, routeVars, defaultVars, promptVars, textVars, regVars>>

Next ==
    \/ (\E p \in PreferredInputs, k \in OpKinds : Call(p, k)) /\ UNCHANGED asideVars
    \/ IterCreateThrows /\ UNCHANGED asideVars
    \/ IterSkip /\ UNCHANGED asideVars
    \/ IterInvoke /\ UNCHANGED asideVars
    \/ OpResolve /\ UNCHANGED asideVars
    \/ (\E msg \in NetworkErrors \cup {ClaudeNoImageGeneration} : OpReject(msg))
          /\ UNCHANGED asideVars
    \/ Exhausted /\ UNCHANGED asideVars

Spec == Init /\ [][Next]_vars

\* The synchronous stretches of a call: once the loop can take a step it
\* takes it, JavaScript running the code up to the next await, return or
\* throw.  Nothing obliges a caller to call, or an operation to settle.
LoopStep ==
    (IterCreateThrows \/ IterSkip \/ IterInvoke \/ Exhausted) /\ UNCHANGED asideVars

SpecLive == Init /\ [][Next]_vars /\ WF_vars(LoopStep)

(***************************************************************************)
(* classifyAnnotationRole on shapes and texts drawn from bounded sets      *)
(***************************************************************************)

RoleTypes == {"arrow", "ellipse", "text", "rectangle", "line", "diamond", "freedraw"}
RoleWidths == {0, 250, 251, 1000}
RoleHeights == {0, 400, 1000}

\* The texts drawn, each with what a reader finds in it: does it hold an
\* instruction word, a measurement (a number with a length unit, a size word,
\* a cross of numbers), a constraint word.
TextCases == {
    [text |-> "place it 10cm from the wall", instruction |-> TRUE,  measurement |-> TRUE,  constraint |-> FALSE],
    [text |-> "Put it HERE",                 instruction |-> TRUE,  measurement |-> FALSE, constraint |-> FALSE],
    [text |-> "Must not move",               instruction |-> TRUE,  measurement |-> FALSE, constraint |-> TRUE],
    [text |-> "centered under the skylight", instruction |-> TRUE,  measurement |-> FALSE, constraint |-> FALSE],
    [text |-> "centered under light",        instruction |-> TRUE,  measurement |-> FALSE, constraint |-> FALSE],
    [text |-> "keep 2x4 inside the top edge", instruction |-> TRUE, measurement |-> TRUE,  constraint |-> TRUE],
    [text |-> "10cm",                        instruction |-> FALSE, measurement |-> TRUE,  constraint |-> FALSE],
    [text |-> "Width 25 PX",                 instruction |-> FALSE, measurement |-> TRUE,  constraint |-> FALSE],
    [text |-> "gap of 3 mm",                 instruction |-> FALSE, measurement |-> TRUE,  constraint |-> FALSE],
    [text |-> "about 12 inches wide, avoid glare", instruction |-> FALSE, measurement |-> TRUE, constraint |-> TRUE],
    [text |-> "6ft",                         instruction |-> FALSE, measurement |-> TRUE,  constraint |-> FALSE],
    [text |-> "1 m",                         instruction |-> FALSE, measurement |-> TRUE,  constraint |-> FALSE],
    [text |-> "SIZE L",                      instruction |-> FALSE, measurement |-> TRUE,  constraint |-> FALSE],
    [text |-> "2x4",                         instruction |-> FALSE, measurement |-> TRUE,  constraint |-> FALSE],
    [text |-> "scale x2 but never beyond the boundary", instruction |-> FALSE, measurement |-> TRUE, constraint |-> TRUE],
    [text |-> "don't",                       instruction |-> FALSE, measurement |-> FALSE, constraint |-> TRUE],
    [text |-> "Avoid glare",                 instruction |-> FALSE, measurement |-> FALSE, constraint |-> TRUE],
    [text |-> "stay within the marked area",  instruction |-> FALSE, measurement |-> FALSE, constraint |-> TRUE],
    [text |-> "Logo",                        instruction |-> FALSE, measurement |-> FALSE, constraint |-> FALSE],
    [text |-> "",                            instruction |-> FALSE, measurement |-> FALSE, constraint |-> FALSE],
    [text |-> "10 kg",                       instruction |-> FALSE, measurement |-> FALSE, constraint |-> FALSE],
    [text |-> "aaaaaaaaaaaaaaaaaaa",         instruction |-> FALSE, measurement |-> FALSE, constraint |-> FALSE],
    [text |-> "aaaaaaaaaaaaaaaaaaaa",        instruction |-> FALSE, measurement |-> FALSE, constraint |-> FALSE],
    [text |-> "a warm and cosy living room", instruction |-> FALSE, measurement |-> FALSE, constraint |-> FALSE]}

Texts == {c.text : c \in TextCases}

RoleShapes ==
    [type : RoleTypes, width : RoleWidths, height : RoleHeights, text : Texts]

\* One evaluation of classifyAnnotationRole on the drawn shape.
Classify ==
    /\ role = NoRole
    /\ role' = classifyAnnotationRole(shape)
    /\ UNCHANGED shape

InitRole ==
    /\ OrchestratorAtRest
    /\ NoParkedCall
    /\ RouteAtRest
    /\ DefaultProviderUnset
    /\ PromptBuilderAtRest
    /\ DescriberAtRest
    /\ ResolverAtRest
    /\ PipelineAtRest
    /\ shape \in RoleShapes
    /\ role = NoRole

NextRole == Classify /\ UNCHANGED <<orchVars, geomVars, pipeVars, concVars, routeVars, defaultVars, promptVars, textVars, regVars>>

SpecRole == InitRole /\ [][NextRole]_vars

(***************************************************************************)
(* extractSemanticAnnotations on small canvases: a first shape drawn from  *)
(* a bounded set, a fixed wide rectangle, a frame, up to two image         *)
(* elements, and up to two image regions                                   *)
(***************************************************************************)

\* Side of the image elements.
ImageSide == 100

\* Long side of the wide shapes.
FarSide == 1200

Plain(id, type, x, y, width, height) ==
    [id |-> id, type |-> type, x |-> x, y |-> y, width |-> width,
     height |-> height, text |-> "", boundElements |-> <<>>,
     startBinding |-> Undefined, endBinding |-> Undefined]

FirstImageElement == Plain("e1", "image", 0, 0, ImageSide, ImageSide)
SecondImageXs == {200, 700, 1100}
SecondImageElement(x) == Plain("e2", "image", x, 0, ImageSide, ImageSide)
FrameElement == Plain("f", "frame", -100, -100, 2 * FarSide, 2 * FarSide)
WideRectangle == Plain("b", "rectangle", 0, 0, FarSide, ImageSide)

FirstShapeXs == {-1150, -550, -450, 50, 150, 650}
FirstShapeYs == {0, 50}
FirstShapeSizes == {<<0, 0>>, <<ImageSide, ImageSide>>, <<FarSide, ImageSide>>}
BoundElementLists == {<<>>, <<"e1">>, <<"zz", "e2">>, <<"e2", "e1">>}

FirstShapes ==
    {[id |-> "a", type |-> t, x |-> x, y |-> y, width |-> sz[1],
      height |-> sz[2], text |-> "note", boundElements |-> b,
      startBinding |-> sb, endBinding |-> eb] :
        t \in AnnotationTypes, x \in FirstShapeXs, y \in FirstShapeYs,
        sz \in FirstShapeSizes, b \in BoundElementLists,
        sb \in {Undefined, "e1"}, eb \in {Undefined, "e2"}}

FirstRegion == [id |-> "img1", excalidrawElementId |-> "e1"]
SecondRegion == [id |-> "img2", excalidrawElementId |-> "e2"]
ImageLists == {<<>>, <<FirstRegion>>, <<FirstRegion, SecondRegion>>,
               <<SecondRegion, FirstRegion>>}

Canvas(first, present, x2, firstLeads) ==
    (IF firstLeads THEN <<first>> ELSE <<WideRectangle>>)
    \o (IF "e1" \in present THEN <<FirstImageElement>> ELSE <<>>)
    \o <<FrameElement>>
    \o (IF "e2" \in present THEN <<SecondImageElement(x2)>> ELSE <<>>)
    \o (IF firstLeads THEN <<WideRectangle>> ELSE <<first>>)

\* const annotations = parseAnnotations(elements, images)
Parse ==
    /\ stage = "canvas"
    /\ annotations' = parseAnnotations(elements, images)
    /\ stage' = "parsed"
    /\ UNCHANGED <<elements, images, relations>>

\* const relations = analyzeAnnotationRelations(annotations, images, elements)
Analyze ==
    /\ stage = "parsed"
    /\ relations' = analyzeAnnotationRelations(annotations, images, elements)
    /\ stage' = "analyzed"
    /\ UNCHANGED <<elements, images, annotations>>

InitPipe ==
    /\ OrchestratorAtRest
    /\ ResolverAtRest
    /\ ClassifierAtRest
    /\ NoParkedCall
    /\ RouteAtRest
    /\ DefaultProviderUnset
    /\ PromptBuilderAtRest
    /\ DescriberAtRest
    /\ \E first \in FirstShapes, present \in SUBSET {"e1", "e2"},
          x2 \in SecondImageXs, firstLeads \in BOOLEAN :
           elements = Canvas(first, present, x2, firstLeads)
    /\ images \in ImageLists
    /\ annotations = <<>>
    /\ relations = <<>>
    /\ stage = "canvas"

NextPipe ==
    \/ Parse /\ UNCHANGED <<orchVars, geomVars, roleVars, concVars, routeVars, defaultVars, promptVars, textVars, regVars>>
    \/ Analyze /\ UNCHANGED <<orchVars, geomVars, roleVars, concVars, routeVars, defaultVars, promptVars, textVars, regVars>>

SpecPipe == InitPipe /\ [][NextPipe]_vars

(***************************************************************************)
(* extractSemanticAnnotations followed by annotationsToText on canvases    *)
(* with a text drawn from Texts, and optionally a second text, an arrow,   *)
(* an ellipse and a rectangle around one image                             *)
(***************************************************************************)

TextElement(id, text, y) ==
    [id |-> id, type |-> "text", x |-> 2 * FarSide, y |-> y, width |-> ImageSide,
     height |-> ImageSide, text |-> text, boundElements |-> <<>>,
     startBinding |-> Undefined, endBinding |-> Undefined]

SecondText == TextElement("u", "Put it HERE", 2 * FarSide)

\* Shapes that may accompany the text: an arrow bound to the image or ending
\* far from it, an ellipse around the image, a small rectangle on it.
BoundArrow ==
    [Plain("a", "arrow", -ImageSide, 0, ImageSide, ImageSide) EXCEPT !.endBinding = "e1"]
FarArrow == Plain("a", "arrow", -FarSide, FarSide, ImageSide, ImageSide)
AroundEllipse == Plain("c", "ellipse", -ImageSide, -ImageSide, 3 * ImageSide, 3 * ImageSide)
SmallRectangle == Plain("r", "rectangle", 0, 0, ImageSide, ImageSide)
Companions ==
    {<<>>, <<BoundArrow>>, <<FarArrow>>, <<AroundEllipse>>, <<SmallRectangle>>,
     <<BoundArrow, AroundEllipse>>, <<SecondText>>, <<SecondText, BoundArrow>>}

TextCanvas(text, companions, textLeads) ==
    (IF textLeads THEN <<TextElement("t", text, 0)>> ELSE <<>>)
    \o companions \o <<FirstImageElement>>
    \o (IF textLeads THEN <<>> ELSE <<TextElement("t", text, 0)>>)

\* return descriptions.join('\n'), on the result of extractSemanticAnnotations
Describe ==
    /\ stage = "analyzed"
    /\ description' = annotationsToText(annotations, relations)
    /\ stage' = "described"
    /\ UNCHANGED <<elements, images, annotations, relations>>

InitText ==
    /\ OrchestratorAtRest
    /\ ResolverAtRest
    /\ ClassifierAtRest
    /\ NoParkedCall
    /\ RouteAtRest
    /\ DefaultProviderUnset
    /\ PromptBuilderAtRest
    /\ \E text \in Texts, companions \in Companions, textLeads \in BOOLEAN :
           elements = TextCanvas(text, companions, textLeads)
    /\ images \in {<<>>, <<FirstRegion>>}
    /\ annotations = <<>>
    /\ relations = <<>>
    /\ stage = "canvas"
    /\ description = ""

NextText ==
    \/ Parse /\ UNCHANGED <<orchVars, geomVars, roleVars, concVars, routeVars, defaultVars, promptVars, textVars, regVars>>
    \/ Analyze /\ UNCHANGED <<orchVars, geomVars, roleVars, concVars, routeVars, defaultVars, promptVars, textVars, regVars>>
    \/ Describe /\ UNCHANGED <<orchVars, geomVars, roleVars, concVars, routeVars, defaultVars, promptVars, regVars>>

SpecText == InitText /\ [][NextText]_vars

(***************************************************************************)
(* calculateConfidence on inputs drawn from bounded sets                   *)
(***************************************************************************)

\* Descriptions of 0, 1, 10, 11 and 25 characters, and none.
Descriptions ==
    {Undefined, "", "a", "a red sofa", "a red sofa.", "a red sofa by the window"}
AnnotationLists == {Undefined, <<>>, <<"a">>, <<"a", "b">>}
ProductImageLists ==
    {Undefined, <<>>,
     <<[productMetadata |-> FALSE]>>,
     <<[productMetadata |-> TRUE]>>,
     <<[productMetadata |-> FALSE], [productMetadata |-> TRUE]>>}
LightingPresets == {Undefined, "", "golden-hour"}
StylePresets == {Undefined, "", "minimalist"}

PromptInputs ==
    [userDescription : Descriptions, annotations : AnnotationLists,
     productImages : ProductImageLists, lightingPreset : LightingPresets,
     stylePreset : StylePresets]

\* One evaluation of calculateConfidence on the drawn input.
CalculateConfidence ==
    /\ confidence = NoConfidence
    /\ confidence' = calculateConfidence(input)
    /\ UNCHANGED input

InitConf ==
    /\ OrchestratorAtRest
    /\ ResolverAtRest
    /\ PipelineAtRest
    /\ ClassifierAtRest
    /\ NoParkedCall
    /\ RouteAtRest
    /\ DefaultProviderUnset
    /\ DescriberAtRest
    /\ input \in PromptInputs
    /\ confidence = NoConfidence

NextConf ==
    CalculateConfidence
        /\ UNCHANGED <<orchVars, geomVars, pipeVars, roleVars, concVars, routeVars, defaultVars, textVars, regVars>>

SpecConf == InitConf /\ [][NextConf]_vars

(***************************************************************************)
(* The registry under all its callers: the getters, clearCache, calls of   *)
(* executeWithFallback, direct construction of a provider, and changes of  *)
(* the credential environment variables in between                         *)
(***************************************************************************)

\* clearCache is called at most this many times.
MaxClears == 1

\* const allTypes: AIProviderType[] = ['gemini', 'claude', 'openai', 'replicate']
allTypes == <<"gemini", "claude", "openai", "replicate">>

callVars == <<pc, preferred, opKind, chain, idx, errors, inflight, invoked,
              skipped, rejections, outcome>>

\* The registry and its bookkeeping after getProvider on each of the types.
Requests(types) ==
    LET c == AfterGets(Cache, types)
    IN /\ providers' = c.entries
       /\ constructed' = c.log
       /\ lastGet' = [hit |-> c.hit, stale |-> c.stale]

\* The bookkeeping of the getProvider(type) of an executeWithFallback step.
RecordGet(type) ==
    LET c == AfterGet(Cache, type)
    IN /\ constructed' = c.log
       /\ lastGet' = [hit |-> c.hit, stale |-> c.stale]

\* AIProviderFactory.getProvider(type), type known
GetProvider(type) ==
    /\ Requests(<<type>>)
    /\ UNCHANGED <<env, callVars>>

\* AIProviderFactory.getConfiguredProviders()
GetConfiguredProviders ==
    /\ Requests(allTypes)
    /\ UNCHANGED <<env, callVars>>

\* AIProviderFactory.getDefaultProvider(), defaultType being what
\* process.env.DEFAULT_AI_PROVIDER || 'gemini' gives
GetDefaultProvider(defaultType) ==
    /\ LET c == AfterGet(Cache, defaultType)
       IN IF isConfigured(c.entries, defaultType)
          THEN Requests(<<defaultType>>)
          ELSE Requests(<<defaultType>> \o allTypes)
    /\ UNCHANGED <<env, callVars>>

\* AIProviderFactory.supportsOperation(providerType, operation), as far as
\* the registry goes
SupportsOperationGet(providerType) ==
    /\ Requests(<<providerType>>)
    /\ UNCHANGED <<env, callVars>>

\* AIProviderFactory.getProvidersForOperation(operation), as far as the
\* registry goes
GetProvidersForOperationGet ==
    /\ Requests(allTypes)
    /\ UNCHANGED <<env, callVars>>

\* AIProviderFactory.clearCache()
ClearCache ==
    /\ providers' = <<>>
    /\ constructed' = [t \in AIProviderType |-> <<>>]
    /\ lastGet' = NoGet
    /\ UNCHANGED <<env, callVars>>

\* The count of the clearCache calls, kept up to MaxClears of them.
CountClear ==
    /\ clears < MaxClears
    /\ clears' = clears + 1

\* process.env.<the type's variable> = a key
SetEnv(type) ==
    /\ type \notin env
    /\ env' = env \cup {type}
    /\ UNCHANGED <<providers, callVars, constructed, lastGet>>

\* delete process.env.<the type's variable>, or setting it to ''
DeleteEnv(type) ==
    /\ type \in env
    /\ env' = env \ {type}
    /\ UNCHANGED <<providers, callVars, constructed, lastGet>>

\* The values process.env.<the type's variable> may hold.
EnvValues(type) == IF type \in env THEN {EnvKey} ELSE {Undefined, ""}

\* new XProvider(arg) outside the registry, before any call
ConstructDirect(type, arg, envValue) ==
    /\ pc = "idle"
    /\ LET made == NewProvider(arg, envValue)
       IN lastNew' = [apiKey |-> made.apiKey, client |-> made.client,
                      type |-> type, arg |-> arg, envValue |-> envValue]
    /\ UNCHANGED <<orchVars, constructed, lastGet>>

\* The steps that are not a direct construction leave no new instance.
NoNew == lastNew' = NoInstance

restVars == <<geomVars, pipeVars, roleVars, concVars, routeVars, defaultVars, promptVars, textVars, reply>>
regGhost == <<constructed, lastGet>>

\* The rejection of the calls made here, and the preferred providers of the
\* calls made while the credentials change.
RegRejection == "request failed"
EnvPreferred == {Undefined, InvalidProvider}
EnvTypes == {"gemini", "openai", "replicate"}

InitReg == Init

\* JavaScript runs a stretch of executeWithFallback to its next await, return
\* or throw before any other code: the other operations happen only while no
\* call stands between two loop iterations.
Suspended == pc # "loop"

\* The steps of a call of executeWithFallback, with the registry's
\* bookkeeping.
CallSteps(preferences) ==
    \/ (\E p \in preferences : Call(p, "generateText"))
          /\ NoNew /\ UNCHANGED <<restVars, regGhost, clears>>
    \/ IterCreateThrows /\ NoNew /\ UNCHANGED <<restVars, regGhost, clears>>
    \/ IterSkip /\ RecordGet(chain[idx]) /\ NoNew /\ UNCHANGED <<restVars, clears>>
    \/ IterInvoke /\ RecordGet(chain[idx]) /\ NoNew /\ UNCHANGED <<restVars, clears>>
    \/ OpResolve /\ NoNew /\ UNCHANGED <<restVars, regGhost, clears>>
    \/ OpReject(RegRejection) /\ NoNew /\ UNCHANGED <<restVars, regGhost, clears>>
    \/ Exhausted /\ NoNew /\ UNCHANGED <<restVars, regGhost, clears>>

\* The registry under its callers, the environment staying as it started.
NextReg ==
    \/ Suspended /\ (\E t \in AIProviderType : GetProvider(t))
          /\ NoNew /\ UNCHANGED <<restVars, clears>>
    \/ Suspended /\ GetConfiguredProviders /\ NoNew /\ UNCHANGED <<restVars, clears>>
    \/ Suspended /\ (\E t \in AIProviderType : GetDefaultProvider(t))
          /\ NoNew /\ UNCHANGED <<restVars, clears>>
    \/ Suspended /\ (\E t \in AIProviderType : SupportsOperationGet(t))
          /\ NoNew /\ UNCHANGED <<restVars, clears>>
    \/ Suspended /\ GetProvidersForOperationGet /\ NoNew /\ UNCHANGED <<restVars, clears>>
    \/ Suspended /\ ClearCache /\ CountClear /\ NoNew /\ UNCHANGED restVars
    \/ CallSteps(PreferredInputs)

SpecReg == InitReg /\ [][NextReg]_vars

\* The credentials changing under the registry: getProvider, clearCache,
\* calls, direct construction, and the environment variables set and deleted.
NextEnv ==
    \/ Suspended /\ (\E t \in EnvTypes : GetProvider(t))
          /\ NoNew /\ UNCHANGED <<restVars, clears>>
    \/ Suspended /\ ClearCache /\ NoNew /\ UNCHANGED <<restVars, clears>>
    \/ Suspended /\ (\E t \in EnvTypes : SetEnv(t))
          /\ NoNew /\ UNCHANGED <<restVars, clears>>
    \/ Suspended /\ (\E t \in EnvTypes : DeleteEnv(t))
          /\ NoNew /\ UNCHANGED <<restVars, clears>>
    \/ (\E t \in AIProviderType, arg \in {Undefined, "", ArgKey} :
           \E v \in EnvValues(t) : ConstructDirect(t, arg, v))
          /\ UNCHANGED <<restVars, clears>>
    \/ CallSteps(EnvPreferred)

SpecEnv == InitReg /\ [][NextEnv]_vars

(***************************************************************************)
(* The capability queries of AIProviderFactory                             *)
(***************************************************************************)

ModelInfo(id, generation, editing, composition) ==
    [id |-> id, supportsImageGeneration |-> generation,
     supportsImageEditing |-> editing, supportsComposition |-> composition]

\* GeminiProvider.getAvailableModels: a text model without image capabilities
\* and two image models.
GeminiModels ==
    <<ModelInfo("gemini-2.0-flash-exp", FALSE, FALSE, FALSE),
      ModelInfo("gemini-2.5-flash-image", TRUE, TRUE, TRUE),
      ModelInfo("gemini-3-pro-image-preview", TRUE, TRUE, TRUE)>>

ClaudeModels ==
    <<ModelInfo("claude-3-5-sonnet-20241022", FALSE, FALSE, FALSE),
      ModelInfo("claude-3-opus-20240229", FALSE, FALSE, FALSE)>>

OpenAIModels ==
    <<ModelInfo("gpt-4o", FALSE, FALSE, FALSE),
      ModelInfo("dall-e-3", TRUE, FALSE, FALSE),
      ModelInfo("dall-e-2", TRUE, TRUE, TRUE)>>

ReplicateModels ==
    <<ModelInfo("stability-ai/sdxl", TRUE, FALSE, FALSE),
      ModelInfo("stability-ai/stable-diffusion", TRUE, TRUE, FALSE),
      ModelInfo("tencentarc/gfpgan", FALSE, TRUE, FALSE)>>

\* provider.getAvailableModels()
getAvailableModels(type) ==
    CASE type = "gemini" -> GeminiModels
      [] type = "claude" -> ClaudeModels
      [] type = "openai" -> OpenAIModels
      [] type = "replicate" -> ReplicateModels

Operations == {"generateText", "generateEnvironment", "composeProduct", "refineImage"}

\* supportsOperation asking the flag of every model.
supportsOperationEveryModel(providerType, operation) ==
    LET models == getAvailableModels(providerType)
    IN CASE operation = "generateText" -> TRUE
         [] operation = "generateEnvironment" ->
                \A i \in 1..Len(models) : models[i].supportsImageGeneration
         [] operation = "composeProduct" ->
                \A i \in 1..Len(models) : models[i].supportsComposition
         [] operation = "refineImage" ->
                \A i \in 1..Len(models) : models[i].supportsImageEditing
         [] OTHER -> FALSE

\* The value supportsOperation returns.
supportsOperation(providerType, operation) ==
    LET models == getAvailableModels(providerType)
    IN CASE operation = "generateText" -> TRUE
         [] operation = "generateEnvironment" ->
                \E i \in 1..Len(models) : models[i].supportsImageGeneration
         [] operation = "composeProduct" ->
                \E i \in 1..Len(models) : models[i].supportsComposition
         [] operation = "refineImage" ->
                \E i \in 1..Len(models) : models[i].supportsImageEditing
         [] OTHER -> FALSE

\* The value getProvidersForOperation returns.
getProvidersForOperation(operation) ==
    SelectSeq(allTypes, LAMBDA type : supportsOperation(type, operation))

\* AIProviderFactory.supportsOperation(providerType, operation)
SupportsOperation(providerType, operation) ==
    /\ SupportsOperationGet(providerType)
    /\ reply' = [query |-> "supportsOperation", provider |-> providerType,
                 operation |-> operation,
                 value |-> supportsOperation(providerType, operation)]

\* AIProviderFactory.getProvidersForOperation(operation)
GetProvidersForOperation(operation) ==
    /\ GetProvidersForOperationGet
    /\ reply' = [query |-> "getProvidersForOperation", operation |-> operation,
                 value |-> getProvidersForOperation(operation)]

NextCap ==
    \/ (\E t \in AIProviderType, op \in Operations : SupportsOperation(t, op))
          /\ UNCHANGED <<geomVars, pipeVars, roleVars, concVars, routeVars, defaultVars, promptVars, textVars, clears, lastNew>>
    \/ (\E op \in Operations : GetProvidersForOperation(op))
          /\ UNCHANGED <<geomVars, pipeVars, roleVars, concVars, routeVars, defaultVars, promptVars, textVars, clears, lastNew>>

SpecCap == Init /\ [][NextCap]_vars

(***************************************************************************)
(* getDefaultProvider and executeWithFallback under every value of         *)
(* DEFAULT_AI_PROVIDER                                                     *)
(***************************************************************************)

\* The values of process.env.DEFAULT_AI_PROVIDER: unset, empty, a provider
\* type, or a string that is none (the source casts it without a test).
DefaultProviderValues == {Undefined, ""} \cup AIProviderType \cup {InvalidProvider}

\* (process.env.DEFAULT_AI_PROVIDER as AIProviderType) || 'gemini'
defaultType == IF Truthy(defaultProvider) THEN defaultProvider ELSE "gemini"

\* configured[0] of getConfiguredProviders(): the first configured type of
\* allTypes.
FirstConfigured(registry) ==
    LET hit == First({i \in 1..Len(allTypes) : isConfigured(registry, allTypes[i])})
    IN IF hit = 0 THEN Undefined ELSE allTypes[hit]

\* What getDefaultProvider gives its caller.
getDefaultProvider ==
    IF CreateThrows(defaultType) THEN Thrown(UnknownTypeMessage(defaultType))
    ELSE LET one == AfterGet(Cache, defaultType).entries
             all == AfterGets(Cache, <<defaultType>> \o allTypes).entries
         IN IF isConfigured(one, defaultType) THEN Returned(defaultType)
            ELSE IF FirstConfigured(all) = Undefined
                 THEN Thrown(NoProvidersConfiguredMessage)
                 ELSE Returned(FirstConfigured(all))

\* A call of AIProviderFactory.getDefaultProvider(), with its answer.
GetDefaultProviderCall ==
    /\ IF CreateThrows(defaultType)
       THEN UNCHANGED <<providers, constructed, lastGet, env, callVars>>
       ELSE GetDefaultProvider(defaultType)
    /\ reply' = [query |-> "getDefaultProvider", value |-> getDefaultProvider]

restButReply == <<geomVars, pipeVars, roleVars, concVars, routeVars, promptVars, textVars, defaultVars>>

InitDefault ==
    /\ env \in SUBSET AIProviderType
    /\ defaultProvider \in DefaultProviderValues
    /\ providers = <<>>
    /\ pc = "idle"
    /\ preferred = Undefined
    /\ opKind = "generateText"
    /\ chain = <<>>
    /\ idx = 1
    /\ errors = <<>>
    /\ inflight = {}
    /\ invoked = <<>>
    /\ skipped = <<>>
    /\ rejections = <<>>
    /\ outcome = NoOutcome
    /\ RegistryAtStart
    /\ ResolverAtRest
    /\ PipelineAtRest
    /\ ClassifierAtRest
    /\ NoParkedCall
    /\ RouteAtRest
    /\ DescriberAtRest
    /\ PromptBuilderAtRest

NextDefault ==
    \/ Suspended /\ GetDefaultProviderCall /\ NoNew /\ UNCHANGED <<restButReply, clears>>
    \/ CallSteps(EnvPreferred)

SpecDefault == InitDefault /\ [][NextDefault]_vars

(***************************************************************************)
(* POST /api/generate-environment: the prompt enhancement and the image    *)
(* generation, each a call of executeWithFallback                          *)
(***************************************************************************)

\* The message of the error request.json() throws on a body that is no JSON.
JsonErrorMessage == "Unexpected end of JSON input"

ProviderSuggestion ==
    "Please configure at least one AI provider (GEMINI_API_KEY, OPENAI_API_KEY, ANTHROPIC_API_KEY, or REPLICATE_API_TOKEN) in your environment variables."

\* The request bodies: no JSON, a missing or empty prompt, a prompt with or
\* without a provider.
Bodies ==
    {[malformed |-> TRUE, prompt |-> Undefined, provider |-> Undefined]}
    \cup [malformed : {FALSE}, prompt : {Undefined, "", "test room"},
          provider : PreferredInputs]

\* errorMessage.includes("All providers failed") || errorMessage.includes("not configured")
isProviderError(errorMessage) ==
    Contains(errorMessage, "All providers failed")
        \/ Contains(errorMessage, "not configured")

\* The catch of the handler: the response to an error of the given message.
errorResponse(errorMessage) ==
    [code |-> IF isProviderError(errorMessage) THEN 503 ELSE 500,
     status |-> "error", message |-> errorMessage,
     suggestion |-> IF isProviderError(errorMessage) THEN ProviderSuggestion
                    ELSE Undefined]

MissingPromptResponse ==
    [code |-> 400, status |-> "error", message |-> "Missing prompt"]

successResponse(imageResponse, prompt) ==
    [code |-> 200, status |-> "success", imageUrl |-> imageResponse,
     enhancedPrompt |-> prompt]

\* POST up to its first await of executeWithFallback, or to its response.
RoutePost(body) ==
    /\ routePc \in {"idle", "responded"}
    /\ pc \in {"idle", "returned", "thrown"}
    /\ request' = body
    /\ IF body.malformed
       THEN /\ response' = errorResponse(JsonErrorMessage)
            /\ routePc' = "responded"
            /\ enhancedPrompt' = Undefined
            /\ UNCHANGED orchVars
       ELSE IF ~Truthy(body.prompt)
       THEN /\ response' = MissingPromptResponse
            /\ routePc' = "responded"
            /\ enhancedPrompt' = Undefined
            /\ UNCHANGED orchVars
       ELSE /\ Call(body.provider, "generateText")
            /\ routePc' = "enhancing"
            /\ enhancedPrompt' = body.prompt
            /\ response' = NoResponse

\* The enhancement has settled: its text, unless it is blank, becomes the
\* prompt, a failure is only logged; then the image generation is called.
RouteEnhanced(blank) ==
    /\ routePc = "enhancing"
    /\ pc \in {"returned", "thrown"}
    /\ enhancedPrompt' = IF pc = "returned" /\ ~blank
                         THEN "A photorealistic, high-resolution test room"
                         ELSE request.prompt
    /\ Call(request.provider, "generateEnvironment")
    /\ routePc' = "generating"
    /\ UNCHANGED <<request, response>>

\* The image generation has settled: the success response, or the catch.
RouteRespond ==
    /\ routePc = "generating"
    /\ pc \in {"returned", "thrown"}
    /\ response' = IF pc = "returned"
                   THEN successResponse(outcome.value, enhancedPrompt)
                   ELSE errorResponse(outcome.message)
    /\ routePc' = "responded"
    /\ UNCHANGED <<orchVars, request, enhancedPrompt>>

routeAside == <<geomVars, pipeVars, roleVars, concVars, defaultVars, promptVars, textVars, regVars>>

InitRoute ==
    /\ env \in SUBSET AIProviderType
    /\ providers = <<>>
    /\ pc = "idle"
    /\ preferred = Undefined
    /\ opKind = "generateText"
    /\ chain = <<>>
    /\ idx = 1
    /\ errors = <<>>
    /\ inflight = {}
    /\ invoked = <<>>
    /\ skipped = <<>>
    /\ rejections = <<>>
    /\ outcome = NoOutcome
    /\ RegistryAtStart
    /\ ResolverAtRest
    /\ PipelineAtRest
    /\ ClassifierAtRest
    /\ NoParkedCall
    /\ DescriberAtRest
    /\ PromptBuilderAtRest
    /\ DefaultProviderUnset
    /\ RouteAtRest

NextRoute ==
    \/ (\E body \in Bodies : RoutePost(body)) /\ UNCHANGED routeAside
    \/ (\E blank \in BOOLEAN : RouteEnhanced(blank)) /\ UNCHANGED routeAside
    \/ RouteRespond /\ UNCHANGED routeAside
    \/ IterCreateThrows /\ UNCHANGED <<routeAside, routeVars>>
    \/ IterSkip /\ UNCHANGED <<routeAside, routeVars>>
    \/ IterInvoke /\ UNCHANGED <<routeAside, routeVars>>
    \/ OpResolve /\ UNCHANGED <<routeAside, routeVars>>
    \/ (\E m \in ApiErrors :
            OpReject(IF AlwaysRejects(chain[idx], opKind)
                     THEN ClaudeNoImageGeneration
                     ELSE handleError(chain[idx], opKind, m)))
          /\ UNCHANGED <<routeAside, routeVars>>
    \/ Exhausted /\ UNCHANGED <<routeAside, routeVars>>

SpecRoute == InitRoute /\ [][NextRoute]_vars

(***************************************************************************)
(* Two calls of executeWithFallback in flight at once.  One call runs (its *)
(* state is in the call's variables), the other is parked at its await,    *)
(* before its start or after its end; the running code gives way only at   *)
(* an await or at its end, where the event loop may take up the other      *)
(* call.                                                                   *)
(***************************************************************************)

\* The running call's local state.
RunningCall ==
    CallState(pc, preferred, opKind, chain, idx, errors, inflight, invoked,
              skipped, rejections, outcome)

\* The event loop turning to the other call, the errors array being one
\* array shared by the calls.
TakeUpOtherSharingErrors ==
    /\ Suspended
    /\ parked' = RunningCall
    /\ pc' = parked.pc
    /\ preferred' = parked.preferred
    /\ opKind' = parked.opKind
    /\ chain' = parked.chain
    /\ idx' = parked.idx
    /\ errors' = errors
    /\ inflight' = parked.inflight
    /\ invoked' = parked.invoked
    /\ skipped' = parked.skipped
    /\ rejections' = parked.rejections
    /\ outcome' = parked.outcome
    /\ UNCHANGED <<env, providers>>

\* The event loop turning to the other call: the running call is at an
\* await, not started or ended; its locals stay with it.
TakeUpOther ==
    /\ Suspended
    /\ parked' = RunningCall
    /\ pc' = parked.pc
    /\ preferred' = parked.preferred
    /\ opKind' = parked.opKind
    /\ chain' = parked.chain
    /\ idx' = parked.idx
    /\ errors' = parked.errors
    /\ inflight' = parked.inflight
    /\ invoked' = parked.invoked
    /\ skipped' = parked.skipped
    /\ rejections' = parked.rejections
    /\ outcome' = parked.outcome
    /\ UNCHANGED <<env, providers>>

ConcPreferred == {Undefined, "openai", InvalidProvider}

concAside == <<geomVars, pipeVars, roleVars, routeVars, defaultVars, promptVars,
               textVars, reply>>

NextConc ==
    \/ CallSteps(ConcPreferred)
    \/ TakeUpOther /\ NoNew /\ UNCHANGED <<concAside, regGhost, clears>>
    \/ Suspended /\ ClearCache /\ NoNew /\ UNCHANGED <<restVars, clears>>

SpecConc == Init /\ [][NextConc]_vars

(***************************************************************************)
(* Properties of the fallback orchestrator                                 *)
(***************************************************************************)

Configured(t) == t \in AIProviderType /\ t \in env
Unconfigured(t) == t \in AIProviderType /\ t \notin env

\* The chain entries the loop has dealt with or is dealing with.
Visited ==
    SubSeq(chain, 1, IF pc \in {"awaiting", "returned"} THEN idx ELSE idx - 1)

ErrorProviders == [i \in 1..Len(errors) |-> errors[i].provider]
RejectionProviders == [i \in 1..Len(rejections) |-> rejections[i].provider]

NoDuplicates(s) == \A i, j \in 1..Len(s) : i # j => s[i] # s[j]

\* C1: the call walks the chain in order; the unconfigured providers met so
\* far were skipped with no invocation and no recorded failure, the
\* configured ones were invoked in chain order, each one before the last
\* has failed, and a call that returned gives the result of the provider
\* the loop stands on, the last one invoked.
C1_FallbackWalk ==
    pc # "idle" =>
        /\ invoked = SelectSeq(Visited, Configured)
        /\ skipped = SelectSeq(Visited, Unconfigured)
        /\ \A i \in 1..Len(skipped) : \A j \in 1..Len(errors) :
               errors[j].provider # skipped[i]
        /\ \A i \in 1..Len(rejections) : rejections[i].provider = invoked[i]
        /\ Len(rejections) >= Len(invoked) - 1
        /\ pc = "returned" =>
               /\ Len(rejections) = Len(invoked) - 1
               /\ invoked[Len(invoked)] = chain[idx]
               /\ outcome = Returned(OpResult(chain[idx], opKind))
        /\ pc = "thrown" => Len(rejections) = Len(invoked)

\* C1 witness: default chain, gemini unconfigured, openai failed, replicate
\* succeeded.
C1_Witness ==
    /\ pc = "returned"
    /\ preferred = Undefined
    /\ skipped = <<"gemini">>
    /\ invoked = <<"openai", "replicate">>
    /\ RejectionProviders = <<"openai">>
    /\ outcome = Returned(OpResult("replicate", opKind))

\* C2: the chain is the preferred provider followed by the default order
\* without it, in the default order's relative order and with no type
\* twice; with no preferred provider it is the default order.
C2_ChainShape ==
    pc # "idle" =>
        IF preferred = Undefined
        THEN chain = <<"gemini", "openai", "replicate">>
        ELSE /\ chain[1] = preferred
             /\ NoDuplicates(chain)
             /\ {chain[i] : i \in 2..Len(chain)} =
                    {"gemini", "openai", "replicate"} \ {preferred}
             /\ \A i, j \in 2..Len(chain) :
                    (i < j) =>
                        \E a, b \in 1..3 :
                            /\ a < b
                            /\ <<"gemini", "openai", "replicate">>[a] = chain[i]
                            /\ <<"gemini", "openai", "replicate">>[b] = chain[j]

\* C2 witness: preferred replicate gives [replicate, gemini, openai].
C2_Witness ==
    /\ pc # "idle"
    /\ preferred = "replicate"
    /\ chain = <<"replicate", "gemini", "openai">>

\* The message the claim describes: the header and one line for each
\* operation rejection, in order.
LinesOfRejections ==
    [i \in 1..Len(rejections) |->
        "- " \o rejections[i].provider \o ": " \o rejections[i].message]

\* The line the catch records for a preferred provider of unknown type.
UnknownTypeLines ==
    IF preferred \notin AIProviderType \cup {Undefined}
    THEN <<"- " \o preferred \o ": Unknown provider type: " \o preferred>>
    ELSE <<>>

\* C3 as stated: a finished call either returned a value or threw the
\* aggregate error, thrown when the chain is exhausted with no success,
\* whose message has one line per attempted configured provider that failed
\* and no other line.
C3_AggregateOnlyAttempted ==
    /\ pc = "returned" => outcome.kind = "value"
    /\ pc = "thrown" =>
           /\ idx = Len(chain) + 1
           /\ outcome.kind = "error"
           /\ outcome.message =
                  "All providers failed. Errors:\n" \o Join(LinesOfRejections, "\n")
           /\ RejectionProviders = SelectSeq(chain, Configured)

\* C3 amended: as above, and a preferred provider of unknown type, whose
\* construction throws inside the loop, has a line of its own ahead of the
\* others; no provider's own error message is what the caller gets.
C3_AggregateError ==
    /\ pc \in {"idle", "loop", "awaiting"} => outcome.kind = "none"
    /\ pc = "returned" =>
           /\ outcome.kind = "value"
           /\ idx <= Len(chain)
    /\ pc = "thrown" =>
           /\ idx = Len(chain) + 1
           /\ outcome.kind = "error"
           /\ outcome.message =
                  "All providers failed. Errors:\n" \o
                      Join(UnknownTypeLines \o LinesOfRejections, "\n")
           /\ RejectionProviders = SelectSeq(chain, Configured)
           /\ \A i \in 1..Len(errors) : outcome.message # errors[i].message

\* C3 witness: two configured providers failed in turn, one was skipped,
\* and the aggregate error was thrown.
C3_Witness ==
    /\ pc = "thrown"
    /\ Len(rejections) = 2
    /\ skipped # <<>>
    /\ preferred \in AIProviderType

\* C4: the operation is invoked at most once per provider type, only on
\* configured providers, hence at most as many times as the chain is long.
C4_AtMostOncePerProvider ==
    /\ NoDuplicates(invoked)
    /\ \A i \in 1..Len(invoked) : Configured(invoked[i])
    /\ Len(invoked) <= Len(chain)

\* C4 witness: a provider has failed, another is tried after it, and an
\* unconfigured one was passed over.
C4_Witness ==
    /\ Len(invoked) = 2
    /\ Len(rejections) = 1
    /\ skipped # <<>>

\* C5: with no provider configured the call ends with a configuration error
\* that is not the aggregate of operation failures, and the operation was
\* never invoked.
C5_DistinctConfigurationError ==
    (env = {} /\ pc = "thrown") =>
        /\ invoked = <<>>
        /\ outcome.message # AggregateMessage(errors)

\* C6: at most one operation is in flight, the one on the provider invoked
\* last, and every provider invoked before it has settled with a failure.
C6_Sequential ==
    /\ Cardinality(inflight) <= 1
    /\ inflight # {} => (pc = "awaiting" /\ inflight = {invoked[Len(invoked)]})
    /\ pc = "awaiting" => RejectionProviders = SubSeq(invoked, 1, Len(invoked) - 1)
    /\ pc # "awaiting" => inflight = {}

\* C6 witness: the second operation is in flight after the first failed.
C6_Witness ==
    /\ pc = "awaiting"
    /\ Len(invoked) = 2
    /\ Len(rejections) = 1
    /\ Cardinality(inflight) = 1

\* The first of gemini, openai, replicate that is configured and has not
\* rejected.
FirstLeft ==
    LET left == SelectSeq(<<"gemini", "openai", "replicate">>, Configured)
    IN left[Len(rejections)]

\* C7: with Claude preferred and configured, generateEnvironment is invoked
\* on Claude, its error is recorded as the first failure, and the call goes
\* on to gemini, openai and replicate in that order: it returns the first
\* success among them and throws only the aggregate error, after all of
\* them.
C7_CapabilityMismatchFallsBack ==
    (preferred = "claude" /\ opKind = "generateEnvironment" /\ "claude" \in env) =>
        /\ chain = <<"claude", "gemini", "openai", "replicate">>
        /\ (pc \in {"returned", "thrown"} \/ idx > 1) =>
               /\ invoked[1] = "claude"
               /\ errors[1] = [provider |-> "claude",
                               message |-> ClaudeNoImageGeneration]
        /\ invoked = SelectSeq(Visited, Configured)
        /\ pc = "returned" =>
               /\ outcome.value.provider = FirstLeft
               /\ outcome.value.provider = invoked[Len(invoked)]
               /\ outcome.value.provider # "claude"
        /\ pc = "thrown" =>
               /\ idx = 5
               /\ outcome.message # ClaudeNoImageGeneration
               /\ Len(rejections) = Cardinality(env)

\* C7 witness: Claude's error was recorded, gemini was skipped, openai
\* failed and replicate's result was returned.
C7_Witness ==
    /\ preferred = "claude"
    /\ opKind = "generateEnvironment"
    /\ pc = "returned"
    /\ invoked = <<"claude", "openai", "replicate">>
    /\ errors[1].message = ClaudeNoImageGeneration
    /\ outcome = Returned(OpResult("replicate", "generateEnvironment"))

(***************************************************************************)
(* Properties of the spatial relation resolver                             *)
(***************************************************************************)

\* The arrow's terminal point (x + width, y + height) is in the image's
\* bounding box.
TipInImageBox ==
    /\ imgEl.x <= annEl.x + annEl.width
    /\ annEl.x + annEl.width <= imgEl.x + imgEl.width
    /\ imgEl.y <= annEl.y + annEl.height
    /\ annEl.y + annEl.height <= imgEl.y + imgEl.height

\* Doubled offset of the annotation's centre from the image's centre.
OffsetX2 == (2 * annEl.x + annEl.width) - (2 * imgEl.x + imgEl.width)
OffsetY2 == (2 * annEl.y + annEl.height) - (2 * imgEl.y + imgEl.height)

LargerSide(el) == IF el.width >= el.height THEN el.width ELSE el.height

\* Width and height of the intersection of the two bounding boxes.
InterWidth ==
    Min(annEl.x + annEl.width, imgEl.x + imgEl.width) - Max(annEl.x, imgEl.x)
InterHeight ==
    Min(annEl.y + annEl.height, imgEl.y + imgEl.height) - Max(annEl.y, imgEl.y)

\* Intersection area over the smaller box area is above 0.1.
BoxesOverlap ==
    /\ InterWidth > 0
    /\ InterHeight > 0
    /\ 10 * InterWidth * InterHeight >
           Min(annEl.width * annEl.height, imgEl.width * imgEl.height)

\* The centres are less than half the ellipse's larger side apart and the
\* image's larger side is below the ellipse's.
EllipseAround ==
    /\ OffsetX2 * OffsetX2 + OffsetY2 * OffsetY2 < LargerSide(annEl) * LargerSide(annEl)
    /\ LargerSide(imgEl) < LargerSide(annEl)

\* C8: an arrow whose terminal point is in the image's bounding box is
\* points_to with confidence 0.95, whatever the distance and the overlap.
C8_ArrowTipPointsTo ==
    (rel # NoRel /\ annEl.type = "arrow" /\ TipInImageBox) =>
        rel = [relation |-> "points_to", confidence |-> 95]

\* C8 witness: points_to for an arrow whose centre is 200 or more from the
\* image's centre and whose box overlaps the image's by more than a tenth.
C8_Witness ==
    /\ rel.relation = "points_to"
    /\ annEl.type = "arrow"
    /\ TipInImageBox
    /\ OffsetX2 * OffsetX2 + OffsetY2 * OffsetY2 >= 4 * 200 * 200
    /\ BoxesOverlap

\* C9 as stated: encircles is returned only for an ellipse at least as
\* large as the image in both dimensions.
C9_EncirclesOnlyIfContains ==
    rel.relation = "encircles" =>
        /\ annEl.type = "ellipse"
        /\ annEl.width >= imgEl.width
        /\ annEl.height >= imgEl.height

\* C9 amended: encircles, confidence 0.9, is returned only for an ellipse
\* whose larger side exceeds the image's larger side and whose centre is
\* less than half that side from the image's centre.
C9_EncirclesByLargerSide ==
    rel.relation = "encircles" =>
        /\ annEl.type = "ellipse"
        /\ rel.confidence = 90
        /\ LargerSide(annEl) > LargerSide(imgEl)
        /\ OffsetX2 * OffsetX2 + OffsetY2 * OffsetY2
               < LargerSide(annEl) * LargerSide(annEl)

\* C9 witness: encircles for an ellipse that is lower than the image is
\* high.
C9_Witness ==
    /\ rel.relation = "encircles"
    /\ annEl.height < imgEl.height
    /\ annEl.width > imgEl.width

\* The four sectors of the doubled offset (dx, dy), y growing downward.
InRightSector(dx, dy) == (dx > 0 /\ -dx <= dy /\ dy < dx) \/ (dx = 0 /\ dy = 0)
InBelowSector(dx, dy) == dy > 0 /\ -dy < dx /\ dx <= dy
InLeftSector(dx, dy) == dx < 0 /\ dx < dy /\ dy <= -dx
InAboveSector(dx, dy) == dy < 0 /\ dy <= dx /\ dx < -dy

\* C10: when no points_to, encircles or overlaps rule applies, a centre
\* offset shorter than 200 gives confidence 0.7 and the label of its
\* sector, [-45,45) right_of, [45,135) below, [135,180] and [-180,-135)
\* left_of, the rest above; an offset of 200 or more gives near, 0.5.
C10_DirectionOrNear ==
    (/\ rel # NoRel
     /\ ~(annEl.type = "arrow" /\ TipInImageBox)
     /\ ~(annEl.type = "ellipse" /\ EllipseAround)
     /\ ~BoxesOverlap) =>
        IF OffsetX2 * OffsetX2 + OffsetY2 * OffsetY2 < 4 * 200 * 200
        THEN /\ rel.confidence = 70
             /\ rel.relation \in {"right_of", "below", "left_of", "above"}
             /\ rel.relation = "right_of" <=> InRightSector(OffsetX2, OffsetY2)
             /\ rel.relation = "below" <=> InBelowSector(OffsetX2, OffsetY2)
             /\ rel.relation = "left_of" <=> InLeftSector(OffsetX2, OffsetY2)
             /\ rel.relation = "above" <=> InAboveSector(OffsetX2, OffsetY2)
        ELSE rel = [relation |-> "near", confidence |-> 50]

\* C10 witness: an offset of exactly 200 is near.
C10_Witness ==
    /\ rel = [relation |-> "near", confidence |-> 50]
    /\ OffsetX2 * OffsetX2 + OffsetY2 * OffsetY2 = 4 * 200 * 200
    /\ ~BoxesOverlap

(***************************************************************************)
(* Claims about parseAnnotations and analyzeAnnotationRelations            *)
(***************************************************************************)

Range(s) == {s[i] : i \in 1..Len(s)}
ElementIds == {el.id : el \in Range(elements)}
Targeted(a) == a.targetImageId # Undefined

\* The relations emitted for the annotation of this id, in emission order.
RelationsOf(id) == SelectSeq(relations, LAMBDA r : r.annotationId = id)

\* The canvas element id of the image region of this id.
CanvasElementOf(imageId) ==
    (CHOOSE img \in Range(images) : img.id = imageId).excalidrawElementId

\* C11 as stated: once the relations are computed, every annotation with a
\* targetImageId has exactly one relation, and it is against its target.
C11_ExactlyOneTargetedRelation ==
    stage = "analyzed" =>
        \A a \in Range(annotations) :
            Targeted(a) =>
                /\ Len(RelationsOf(a.id)) = 1
                /\ RelationsOf(a.id)[1].imageId = a.targetImageId

\* C11, amended: an annotation with a targetImageId has exactly one relation,
\* against its target and whatever the confidence, when the target image's
\* canvas element is among the elements, and no relation when it is not.
C11_OneTargetedRelationIfOnCanvas ==
    stage = "analyzed" =>
        \A a \in Range(annotations) :
            Targeted(a) =>
                IF CanvasElementOf(a.targetImageId) \in ElementIds
                THEN /\ Len(RelationsOf(a.id)) = 1
                     /\ RelationsOf(a.id)[1].imageId = a.targetImageId
                ELSE RelationsOf(a.id) = <<>>

\* A targeted annotation, its target on the canvas, whose one relation is a
\* bare `near`.
C11_Witness ==
    /\ stage = "analyzed"
    /\ \E a \in Range(annotations) :
          /\ Targeted(a)
          /\ CanvasElementOf(a.targetImageId) \in ElementIds
          /\ Len(RelationsOf(a.id)) = 1
          /\ RelationsOf(a.id)[1].relation = "near"
          /\ RelationsOf(a.id)[1].confidence = 50

\* The canvas element of the annotation or image region, by its id.
ElementOf(id) == elements[FindElement(elements, id)]

\* The image regions whose canvas element is among the elements.
OnCanvas == {img \in Range(images) : img.excalidrawElementId \in ElementIds}

\* What determineSpatialRelation gives for the annotation and the image.
Evaluated(a, img) ==
    determineSpatialRelation(a, ElementOf(a.id), ElementOf(img.excalidrawElementId))

\* C12: once the relations are computed, an annotation without targetImageId
\* has one relation for each known image on the canvas whose evaluation has a
\* confidence strictly above 0.5, carrying that evaluation, and no other
\* relation; none of its relations is a `near`.
C12_UntargetedKeepsAboveHalf ==
    stage = "analyzed" =>
        \A a \in Range(annotations) :
            ~Targeted(a) =>
                LET kept == {img \in OnCanvas : Evaluated(a, img).confidence > 50}
                    got == RelationsOf(a.id)
                IN /\ Len(got) = Cardinality(kept)
                   /\ \A img \in kept :
                         \E i \in 1..Len(got) :
                             /\ got[i].imageId = img.id
                             /\ got[i].relation = Evaluated(a, img).relation
                             /\ got[i].confidence = Evaluated(a, img).confidence
                   /\ \A i \in 1..Len(got) :
                         got[i].relation # "near" /\ got[i].confidence > 50

\* One untargeted annotation with a relation to each of two images, and one
\* whose only evaluation is a `near`, left without relation.
C12_Witness ==
    /\ stage = "analyzed"
    /\ \E a \in Range(annotations) :
          ~Targeted(a) /\ Len(RelationsOf(a.id)) = 2
    /\ \E a \in Range(annotations) :
          /\ ~Targeted(a)
          /\ RelationsOf(a.id) = <<>>
          /\ \E img \in OnCanvas : Evaluated(a, img).relation = "near"

Parsed == stage \in {"parsed", "analyzed"}

\* The canvas element ids of the known image regions, and the region of one.
RegionElementIds == {img.excalidrawElementId : img \in Range(images)}
RegionOfElement(id) == CHOOSE img \in Range(images) : img.excalidrawElementId = id

\* The positions in the shape's boundElements that name a region's element.
BoundHits(el) ==
    {i \in 1..Len(el.boundElements) : el.boundElements[i] \in RegionElementIds}

LeastOf(S) == CHOOSE i \in S : \A j \in S : i <= j

\* Square of the doubled distance between the centres of a shape and of an
\* image region's canvas element.
CentreDistance2(el, img) ==
    Dist2Sq(Centre2(el), Centre2(ElementOf(img.excalidrawElementId)))

UnderCutoff(el, img) ==
    CentreDistance2(el, img) < (2 * maxDistance) * (2 * maxDistance)

\* C13: the target of an annotation is (a) the region of the first of its
\* boundElements that is a known region's canvas element; failing that, for
\* an arrow only, (b) the region of its start binding, else of its end
\* binding; failing that (c) an image on the canvas under the cutoff with no
\* image on the canvas nearer; and absent when no step gives one.
C13_TargetPriority ==
    Parsed =>
        \A a \in Range(annotations) :
            LET el == ElementOf(a.id)
                arrowStart == el.type = "arrow" /\ el.startBinding \in RegionElementIds
                arrowEnd == el.type = "arrow" /\ el.endBinding \in RegionElementIds
            IN IF BoundHits(el) # {}
               THEN a.targetImageId =
                        RegionOfElement(el.boundElements[LeastOf(BoundHits(el))]).id
               ELSE IF arrowStart
               THEN a.targetImageId = RegionOfElement(el.startBinding).id
               ELSE IF arrowEnd
               THEN a.targetImageId = RegionOfElement(el.endBinding).id
               ELSE IF \E img \in OnCanvas : UnderCutoff(el, img)
               THEN \E img \in OnCanvas :
                       /\ a.targetImageId = img.id
                       /\ UnderCutoff(el, img)
                       /\ \A other \in OnCanvas :
                             CentreDistance2(el, img) <= CentreDistance2(el, other)
               ELSE ~Targeted(a)

\* An arrow whose second bound element gives the target although its start
\* binding names the other image and that image is strictly nearer.
C13_Witness ==
    /\ Parsed
    /\ \E a \in Range(annotations) :
          LET el == ElementOf(a.id)
          IN /\ el.type = "arrow"
             /\ el.boundElements = <<"zz", "e2">>
             /\ el.startBinding = "e1"
             /\ a.targetImageId = "img2"
             /\ {FirstRegion, SecondRegion} \subseteq OnCanvas
             /\ CentreDistance2(el, FirstRegion) < CentreDistance2(el, SecondRegion)

\* Neither the bound elements nor, for an arrow, the start and end bindings
\* of the shape name a known image region: the nearest-image step decides.
LeftToProximity(el) ==
    /\ BoundHits(el) = {}
    /\ el.type = "arrow" =>
          /\ el.startBinding \notin RegionElementIds
          /\ el.endBinding \notin RegionElementIds

\* The positions in the image list of the regions on the canvas.
OnCanvasAt == {i \in 1..Len(images) : images[i] \in OnCanvas}

\* C14: when the nearest-image step decides, the target is the image on the
\* canvas at the least centre distance, provided that distance is strictly
\* below 500; images at the same least distance give the one earlier in the
\* image list; with every image at 500 or more there is no target.
C14_NearestUnderCutoff ==
    Parsed =>
        \A a \in Range(annotations) :
            LET el == ElementOf(a.id)
                d(i) == CentreDistance2(el, images[i])
            IN LeftToProximity(el) =>
                 IF \A i \in OnCanvasAt : d(i) >= (2 * 500) * (2 * 500)
                 THEN ~Targeted(a)
                 ELSE \E i \in OnCanvasAt :
                         /\ a.targetImageId = images[i].id
                         /\ d(i) < (2 * 500) * (2 * 500)
                         /\ \A j \in OnCanvasAt : d(i) <= d(j)
                         /\ \A j \in OnCanvasAt : j < i => d(i) < d(j)

\* Two images on the canvas at the same distance under the cutoff from a
\* shape left to proximity, the second region leading the image list: the
\* target is the second region.
C14_Witness ==
    /\ Parsed
    /\ images = <<SecondRegion, FirstRegion>>
    /\ OnCanvasAt = {1, 2}
    /\ \E a \in Range(annotations) :
          LET el == ElementOf(a.id)
          IN /\ LeftToProximity(el)
             /\ CentreDistance2(el, FirstRegion) = CentreDistance2(el, SecondRegion)
             /\ UnderCutoff(el, FirstRegion)
             /\ a.targetImageId = "img2"

\* The positions of the canvas elements that are neither an image nor a frame.
ShapeAt == {i \in 1..Len(elements) : elements[i].type \notin {"image", "frame"}}

\* The n-th of these positions, in canvas order.
NthShapeAt(n) == CHOOSE i \in ShapeAt : Cardinality({j \in ShapeAt : j < i}) = n - 1

\* C17: parseAnnotations gives one annotation for each element that is
\* neither an image nor a frame, in canvas order; each has a confidence
\* between 0 and 1, a role of the closed set, and the centre of its shape's
\* bounding box as position.
C17_OneAnnotationPerShape ==
    Parsed =>
        /\ Len(annotations) = Cardinality(ShapeAt)
        /\ \A n \in 1..Len(annotations) :
              LET a == annotations[n]
                  el == elements[NthShapeAt(n)]
              IN /\ a.id = el.id
                 /\ a.type = el.type
                 /\ a.confidence \in 0..100
                 /\ a.role \in {"placement_indicator", "emphasis", "instruction",
                                "measurement", "reference", "constraint", "unknown"}
                 /\ a.position.x = 2 * el.x + el.width
                 /\ a.position.y = 2 * el.y + el.height

\* A canvas of five elements, the wide rectangle leading and two images and
\* the frame before the first shape: two annotations, in that order.
C17_Witness ==
    /\ Parsed
    /\ Len(elements) = 5
    /\ elements[1].id = "b"
    /\ elements[5].id = "a"
    /\ Len(annotations) = 2
    /\ annotations[1].id = "b"
    /\ annotations[2].id = "a"

(***************************************************************************)
(* Claims about classifyAnnotationRole                                     *)
(***************************************************************************)

Classified == role # NoRole

\* What a reader finds in the drawn text.
CaseOf(text) == CHOOSE c \in TextCases : c.text = text

\* C15: a text shape is classified by the first of these that applies: an
\* instruction pattern (instruction, 0.9), a measurement pattern
\* (measurement, 0.85), a constraint pattern (constraint, 0.8), fewer than 20
\* characters (reference, 0.6), and otherwise (instruction, 0.5); upper and
\* lower case are not told apart.
C15_TextRoleOrder ==
    (Classified /\ shape.type = "text") =>
        LET c == CaseOf(shape.text)
        IN role = IF c.instruction THEN [role |-> "instruction", confidence |-> 90]
                  ELSE IF c.measurement THEN [role |-> "measurement", confidence |-> 85]
                  ELSE IF c.constraint THEN [role |-> "constraint", confidence |-> 80]
                  ELSE IF Len(shape.text) < 20 THEN [role |-> "reference", confidence |-> 60]
                  ELSE [role |-> "instruction", confidence |-> 50]

\* 'place it 10cm from the wall', holding both an instruction word and a
\* measurement, classified instruction.
C15_Witness ==
    /\ shape.type = "text"
    /\ shape.text = "place it 10cm from the wall"
    /\ role = [role |-> "instruction", confidence |-> 90]

\* C16: a shape that is not a text is classified by its kind alone: an arrow
\* (placement_indicator, 0.9), an ellipse (emphasis, 0.85), a rectangle
\* (constraint, 0.7) if width x height is strictly above 100000 and
\* (emphasis, 0.6) if not, any other kind (unknown, 0.3).
C16_ShapeRole ==
    (Classified /\ shape.type # "text") =>
        role = CASE shape.type = "arrow" -> [role |-> "placement_indicator", confidence |-> 90]
                 [] shape.type = "ellipse" -> [role |-> "emphasis", confidence |-> 85]
                 [] shape.type = "rectangle" ->
                        IF shape.width * shape.height > 100000
                        THEN [role |-> "constraint", confidence |-> 70]
                        ELSE [role |-> "emphasis", confidence |-> 60]
                 [] OTHER -> [role |-> "unknown", confidence |-> 30]

\* A rectangle of area exactly 100000, classified emphasis.
C16_Witness ==
    /\ shape.type = "rectangle"
    /\ shape.width * shape.height = 100000
    /\ role = [role |-> "emphasis", confidence |-> 60]

(***************************************************************************)
(* Claims about the provider registry                                      *)
(***************************************************************************)

\* C18: for every type the registry holds an instance exactly if the type was
\* constructed since start-up or the last clearCache, and it was constructed
\* once; a step other than clearCache keeps every instance the registry
\* holds, so that a later request is answered with it.
C18_OneInstancePerType ==
    /\ [](\A t \in AIProviderType :
            /\ Len(constructed[t]) <= 1
            /\ t \in DOMAIN providers <=> Len(constructed[t]) = 1)
    /\ [][(\A t \in DOMAIN providers :
               /\ t \in DOMAIN providers'
               /\ providers'[t] = providers[t]
               /\ constructed'[t] = constructed[t])
           \/ ClearCache]_vars

\* After a clearCache a type has been constructed again, and the latest
\* operation was answered with an instance from the cache.
C18_Witness ==
    /\ clears = 1
    /\ lastGet.hit
    /\ \E t \in DOMAIN providers : Len(constructed[t]) = 1

\* A credential value that is there: neither absent nor the empty string.
NonEmpty(v) == v \notin {Undefined, ""}

\* The provider a loop iteration has just invoked, or passed over.
JustInvoked == IF Len(invoked') = Len(invoked) + 1 THEN {invoked'[Len(invoked')]} ELSE {}
JustSkipped == IF Len(skipped') = Len(skipped) + 1 THEN {skipped'[Len(skipped')]} ELSE {}

\* C19: an instance made by `new` is configured exactly if its argument, or
\* else the type's environment variable, held a non-empty credential, and
\* its SDK client is made only with a credential, so that nothing throws
\* without one; a cached instance is configured exactly if the variable was
\* set when it was constructed; the answer of an instance never changes
\* while it is cached, and executeWithFallback invokes or passes over a
\* provider by the credential of its construction, whatever the variable
\* holds by then.
C19_ConfiguredFixedAtConstruction ==
    /\ [](lastNew # NoInstance =>
             /\ isConfigured([t \in {lastNew.type} |-> lastNew], lastNew.type)
                   <=> (NonEmpty(lastNew.arg) \/ NonEmpty(lastNew.envValue))
             /\ lastNew.client => NonEmpty(lastNew.apiKey))
    /\ [](\A t \in DOMAIN providers :
             isConfigured(providers, t) <=> constructed[t][1])
    /\ [][\A t \in (DOMAIN providers) \cap (DOMAIN providers') :
             isConfigured(providers', t) <=> isConfigured(providers, t)]_vars
    /\ [][(\A t \in JustInvoked : constructed'[t][1])
           /\ (\A t \in JustSkipped : ~constructed'[t][1])]_vars

\* A loop iteration has just passed over a provider whose variable is set:
\* its instance was found in the cache, made when the variable was not.
C19_Witness ==
    /\ pc = "loop"
    /\ idx > 1
    /\ skipped # <<>>
    /\ skipped[Len(skipped)] = chain[idx - 1]
    /\ chain[idx - 1] \in env
    /\ lastGet.hit
    /\ lastGet.stale

\* The providers configured: in SpecCap the environment stays as it started,
\* so an instance is configured exactly if its variable is set.
ConfiguredTypes == {t \in AIProviderType : t \in env}

\* One of the provider's models has the flag the operation goes with.
SomeModelHasFlag(t, op) ==
    \E i \in 1..Len(getAvailableModels(t)) :
        LET m == getAvailableModels(t)[i]
        IN \/ op = "generateEnvironment" /\ m.supportsImageGeneration
           \/ op = "composeProduct" /\ m.supportsComposition
           \/ op = "refineImage" /\ m.supportsImageEditing

SupportedAsClaimed(t, op) == op = "generateText" \/ SomeModelHasFlag(t, op)

\* C20 as stated: getProvidersForOperation returns exactly the configured
\* providers that support the operation.
C20_OnlyConfiguredProviders ==
    reply.query = "getProvidersForOperation" =>
        Range(reply.value) =
            {t \in ConfiguredTypes : SupportedAsClaimed(t, reply.operation)}

\* C20, amended: supportsOperation is true for generateText, and for the
\* other operations exactly if one of the provider's models has the flag;
\* getProvidersForOperation returns, in the order gemini, claude, openai,
\* replicate, exactly the providers that support the operation, whether
\* they are configured or not.
C20_ProvidersByCapability ==
    /\ reply.query = "supportsOperation" =>
          (reply.value <=> SupportedAsClaimed(reply.provider, reply.operation))
    /\ reply.query = "getProvidersForOperation" =>
          /\ Range(reply.value) =
                {t \in AIProviderType : SupportedAsClaimed(t, reply.operation)}
          /\ \A i, j \in 1..Len(reply.value) :
                i < j => \E m, n \in 1..Len(allTypes) :
                            /\ m < n
                            /\ allTypes[m] = reply.value[i]
                            /\ allTypes[n] = reply.value[j]

\* With no provider configured, getProvidersForOperation('composeProduct')
\* has returned gemini and openai.
C20_Witness ==
    /\ env = {}
    /\ reply.query = "getProvidersForOperation"
    /\ reply.operation = "composeProduct"
    /\ reply.value = <<"gemini", "openai">>

(***************************************************************************)
(* Claim C21                                                               *)
(***************************************************************************)

Described == stage = "described"

\* The canvas texts that classifyAnnotationRole reads as an instruction and
\* that are not empty.
InstructionTexts ==
    {elements[i].text : i \in {j \in 1..Len(elements) :
        /\ elements[j].type = "text"
        /\ elements[j].text # ""
        /\ classifyAnnotationRole(elements[j]).role = "instruction"}}

\* C21: once annotationsToText has run on the result of
\* extractSemanticAnnotations, its text contains the line
\* User instruction: "<content>" for every canvas text that is classified as
\* an instruction and is not empty, the content being the text as drawn.
C21_InstructionRoundTrip ==
    Described =>
        \A content \in InstructionTexts :
            Contains(description, "User instruction: \"" \o content \o "\"")

\* A described canvas with two instructions, one of them with capitals, and a
\* placement arrow: the text has both instruction lines and the arrow's line.
C21_Witness ==
    /\ Described
    /\ Cardinality(InstructionTexts) = 2
    /\ "Put it HERE" \in InstructionTexts
    /\ Contains(description, "User instruction: \"Put it HERE\"")
    /\ Contains(description, "\nPlacement arrow ")

(***************************************************************************)
(* Claim C22                                                               *)
(***************************************************************************)

Scored == confidence # NoConfidence

\* The increments as the claim words them, in hundredths.
DescriptionIncrement ==
    IF input.userDescription \in {"a red sofa.", "a red sofa by the window"}
    THEN 20 ELSE 0
AnnotationIncrement ==
    IF input.annotations \in {<<"a">>, <<"a", "b">>} THEN 10 ELSE 0
MetadataIncrement ==
    IF /\ input.productImages # Undefined
       /\ [productMetadata |-> TRUE] \in Range(input.productImages)
    THEN 10 ELSE 0
LightingIncrement == IF input.lightingPreset = "golden-hour" THEN 5 ELSE 0
StyleIncrement == IF input.stylePreset = "minimalist" THEN 5 ELSE 0
IncrementSum ==
    50 + DescriptionIncrement + AnnotationIncrement + MetadataIncrement
       + LightingIncrement + StyleIncrement

\* C22: the confidence score is 0.5 plus 0.2 for a description longer than 10
\* characters, 0.1 for at least one annotation, 0.1 for a product image with
\* metadata, 0.05 for a lighting preset and 0.05 for a style preset, capped
\* at 1.0; it lies within [0.5, 1.0].
C22_ConfidenceScore ==
    Scored =>
        /\ confidence = (IF IncrementSum > 100 THEN 100 ELSE IncrementSum)
        /\ confidence >= 50
        /\ confidence <= 100

\* Every increment applies and the score is 1.0.
C22_Witness ==
    /\ Scored
    /\ DescriptionIncrement = 20
    /\ AnnotationIncrement = 10
    /\ MetadataIncrement = 10
    /\ LightingIncrement = 5
    /\ StyleIncrement = 5
    /\ confidence = 100

(***************************************************************************)
(* Claims about DEFAULT_AI_PROVIDER                                        *)
(***************************************************************************)

\* A call for a request that names no provider has tried its first provider.
UnspecifiedCallTried ==
    /\ pc # "idle"
    /\ preferred = Undefined
    /\ invoked # <<>>

\* C23: when the request names no provider and DEFAULT_AI_PROVIDER names a
\* configured one, that provider is the first the call uses.
C23_DefaultProviderFirst ==
    (UnspecifiedCallTried /\ defaultProvider \in env) =>
        invoked[1] = defaultProvider

DefaultAnswered == reply.query = "getDefaultProvider"

\* The default type as the claims word it: the provider DEFAULT_AI_PROVIDER
\* names, gemini when it is unset or empty.
NamedDefault ==
    IF defaultProvider \in {Undefined, ""} THEN "gemini" ELSE defaultProvider

\* The first type of the order that is configured, Undefined if none is.
FirstOf(order) ==
    IF \E i \in 1..Len(order) : order[i] \in env
    THEN order[CHOOSE i \in 1..Len(order) :
                   order[i] \in env /\ \A j \in 1..(i - 1) : order[j] \notin env]
    ELSE Undefined

\* C27 as stated: with DEFAULT_AI_PROVIDER naming a provider type or unset,
\* getDefaultProvider returns the named provider if it is configured,
\* otherwise the first configured provider of gemini, openai, replicate, and
\* throws the configuration error only when no provider is configured.
C27_FallbackOrderDefault ==
    (DefaultAnswered /\ NamedDefault \in AIProviderType) =>
        /\ NamedDefault \in env => reply.value = Returned(NamedDefault)
        /\ (NamedDefault \notin env /\ env # {}) =>
               reply.value = Returned(FirstOf(<<"gemini", "openai", "replicate">>))
        /\ reply.value = Thrown(NoProvidersConfiguredMessage) <=> env = {}

\* What getDefaultProvider does: it returns the provider DEFAULT_AI_PROVIDER
\* names (gemini when unset) if it is configured, otherwise the first
\* configured provider of gemini, claude, openai, replicate; it throws the
\* configuration error exactly when no provider is configured and the named
\* type is known, and 'Unknown provider type' when DEFAULT_AI_PROVIDER names
\* no provider type.
DefaultProviderAsCoded ==
    DefaultAnswered =>
        reply.value =
            (IF NamedDefault \notin AIProviderType
             THEN Thrown("Unknown provider type: " \o NamedDefault)
             ELSE IF NamedDefault \in env THEN Returned(NamedDefault)
             ELSE IF env = {} THEN Thrown(NoProvidersConfiguredMessage)
             ELSE Returned(FirstOf(<<"gemini", "claude", "openai", "replicate">>)))

\* The default gemini is not configured, claude and openai are: claude is
\* returned.
ClaudeReturnedAsDefault ==
    /\ DefaultAnswered
    /\ NamedDefault = "gemini"
    /\ env = {"claude", "openai"}
    /\ reply.value = Returned("claude")

(***************************************************************************)
(* Claim C24                                                               *)
(***************************************************************************)

UnknownPreferredCall == pc # "idle" /\ preferred = InvalidProvider

\* The types a call has a rejection recorded for.
Rejected == {rejections[i].provider : i \in 1..Len(rejections)}

\* The configured providers of the default order that have not failed.
StillToSucceed ==
    SelectSeq(<<"gemini", "openai", "replicate">>,
              LAMBDA t : t \in env /\ t \notin Rejected)

\* C24: a call with an unknown preferred provider type is not ended by it:
\* the failed construction is recorded and the call goes on through gemini,
\* openai, replicate; it returns the result of the first configured one of
\* them whose operation succeeds, and throws only when each configured one
\* of them has failed.
C24_UnknownPreferredFallsBack ==
    UnknownPreferredCall =>
        /\ chain = <<InvalidProvider, "gemini", "openai", "replicate">>
        /\ InvalidProvider \notin Range(invoked)
        /\ pc = "returned" =>
               /\ StillToSucceed # <<>>
               /\ outcome = Returned(OpResult(StillToSucceed[1], opKind))
        /\ pc = "thrown" =>
               /\ StillToSucceed = <<>>
               /\ outcome = Thrown(AggregateMessage(errors))
               /\ errors[1] = ProviderError(InvalidProvider,
                                  "Unknown provider type: invalid-provider")

\* After the unknown type and a failure of gemini, openai's result is
\* returned.
C24_Witness ==
    /\ UnknownPreferredCall
    /\ pc = "returned"
    /\ Rejected = {"gemini"}
    /\ outcome = Returned(OpResult("openai", opKind))

(***************************************************************************)
(* Claim C25                                                               *)
(***************************************************************************)

\* The route has responded to a request whose image generation failed at the
\* providers' API.
RespondedToApiFailure ==
    /\ routePc = "responded"
    /\ Truthy(request.prompt)
    /\ pc = "thrown"
    /\ rejections # <<>>

\* The messages the providers' API calls failed with, bare and as the
\* provider throws them.
FailureMessages ==
    ApiErrors \cup {rejections[i].message : i \in 1..Len(rejections)}

\* C25: when the provider API call behind the route fails with an error of
\* message M, the response has HTTP status 500, status 'error' and message M.
C25_ApiFailureGives500 ==
    RespondedToApiFailure =>
        /\ response.code = 500
        /\ response.status = "error"
        /\ response.message \in FailureMessages

\* What the route does on such a failure: status 503, and the aggregate
\* message of executeWithFallback with a line for each failed provider.
ApiFailureAsCoded ==
    RespondedToApiFailure =>
        /\ response.code = 503
        /\ response.status = "error"
        /\ response.message = AggregateMessage(errors)
        /\ response.suggestion = ProviderSuggestion

\* Status 500 is the answer to an error that is not the orchestrator's: a
\* request body that cannot be parsed.
StatusCodesAsCoded ==
    routePc = "responded" =>
        /\ response.code = 500 <=> request.malformed
        /\ response.code = 400 <=> (~request.malformed /\ ~Truthy(request.prompt))
        /\ response.code = 503 <=> (Truthy(request.prompt) /\ pc = "thrown")
        /\ response.code = 200 <=> (Truthy(request.prompt) /\ pc = "returned")

(***************************************************************************)
(* Claim C26                                                               *)
(***************************************************************************)

\* Neither the arrow rule nor the ellipse rule applies to the drawn shapes.
NoRuleBeforeOverlap ==
    /\ ~(annEl.type = "arrow" /\ TipInImageBox)
    /\ ~(annEl.type = "ellipse" /\ EllipseAround)

\* C26: when neither points_to nor encircles applies, whatever the kind of
\* the shape, the result is overlaps with confidence 0.8 exactly if the
\* intersection of the bounding boxes is more than a tenth of the smaller
\* box's area; boxes that do not intersect have ratio 0.
C26_OverlapStepForEveryShape ==
    (rel # NoRel /\ NoRuleBeforeOverlap) =>
        /\ rel = [relation |-> "overlaps", confidence |-> 80] <=> BoxesOverlap
        /\ rel.relation = "overlaps" => rel.confidence = 80
        /\ (InterWidth <= 0 \/ InterHeight <= 0) => rel.relation # "overlaps"

\* An ellipse that does not encircle the image, far larger than it and lying
\* over all of it: the intersection is the whole of the smaller box, and the
\* result is overlaps.
C26_Witness ==
    /\ rel = [relation |-> "overlaps", confidence |-> 80]
    /\ annEl.type = "ellipse"
    /\ ~EllipseAround
    /\ annEl.width * annEl.height > 10 * imgEl.width * imgEl.height
    /\ InterWidth = imgEl.width
    /\ InterHeight = imgEl.height

\* A shape lying over exactly a tenth of an image of its size: no overlaps.
ExactTenthIsNoOverlap ==
    /\ rel # NoRel
    /\ NoRuleBeforeOverlap
    /\ InterWidth > 0
    /\ InterHeight > 0
    /\ 10 * InterWidth * InterHeight = Min(annEl.width * annEl.height, imgEl.width * imgEl.height)
    /\ rel.relation # "overlaps"

(***************************************************************************)
(* Claim C28                                                               *)
(***************************************************************************)

InCall == pc \in {"loop", "awaiting"}
Completed == pc \in {"returned", "thrown"}

\* The awaited operation settles in this step: it leaves inflight, and the
\* call has its value or one more rejection.
Settles ==
    /\ inflight' = inflight \ {chain[idx]}
    /\ \/ outcome' = Returned(OpResult(chain[idx], opKind))
       \/ Len(rejections') = Len(rejections) + 1

\* C28: executeWithFallback has no timeout.  A call never invokes more
\* operations than its chain is long; a call awaiting an operation stays
\* where it is, trying no other provider, until that operation settles; and
\* if every awaited operation eventually settles, every call eventually
\* returns or throws.
C28_NoTimeout ==
    /\ [](Len(invoked) <= Len(chain))
    /\ [][pc = "awaiting" =>
            \/ Settles
            \/ /\ pc' = "awaiting"
               /\ UNCHANGED <<idx, invoked, skipped, outcome>>]_vars
    /\ ([](pc = "awaiting" => <>(pc # "awaiting"))) => (InCall ~> Completed)

\* A call awaits its second operation while a configured provider stands
\* behind it in the chain.
C28_Witness ==
    /\ pc = "awaiting"
    /\ Len(invoked) = 2
    /\ idx < Len(chain)
    /\ chain[idx + 1] \in env
    /\ chain[idx + 1] \notin Range(invoked)

(***************************************************************************)
(* Claim C29                                                               *)
(***************************************************************************)

\* How many entries of its chain a call has dealt with or is dealing with.
VisitedBy(c) == IF c.pc \in {"awaiting", "returned"} THEN c.idx ELSE c.idx - 1

\* The providers a call has invoked and passed over are what its own chain
\* and the credentials give: of the entries visited, the configured ones and
\* the unconfigured ones, in the chain's order.
TriesOwnChain(c) ==
    LET visited == SubSeq(c.chain, 1, VisitedBy(c))
    IN /\ c.invoked = SelectSeq(visited, LAMBDA t : t \in AIProviderType /\ t \in env)
       /\ c.skipped = SelectSeq(visited, LAMBDA t : t \in AIProviderType /\ t \notin env)

\* The failures a call has met itself: the construction of an unknown
\* preferred type, then the rejections of the operations it invoked.
OwnFailures(c) ==
    (IF VisitedBy(c) >= 1 /\ c.chain[1] \notin AIProviderType
     THEN <<[provider |-> c.chain[1],
             message |-> "Unknown provider type: " \o c.chain[1]]>>
     ELSE <<>>)
    \o c.rejections

\* A call's errors and outcome come from that call alone.
OwnOutcome(c) ==
    /\ c.errors = OwnFailures(c)
    /\ \A i \in 1..Len(c.rejections) : c.rejections[i].provider = c.invoked[i]
    /\ c.pc = "thrown" => c.outcome = Thrown(AggregateMessage(OwnFailures(c)))
    /\ c.pc = "returned" =>
           c.outcome = Returned(OpResult(c.invoked[Len(c.invoked)], c.opKind))

\* C29: with two calls interleaving at their awaits, no provider type is
\* constructed more than once between two clearCache calls, and each call
\* tries the providers its own chain gives, its errors and its aggregate
\* error listing only the failures it met itself, whatever the other call
\* did.
C29_CallsDoNotInterfere ==
    /\ \A t \in AIProviderType : Len(constructed[t]) <= 1
    /\ TriesOwnChain(RunningCall)
    /\ TriesOwnChain(parked)
    /\ OwnOutcome(RunningCall)
    /\ OwnOutcome(parked)

\* Two calls of the same chain, both begun before either ended: the parked
\* one still awaits gemini and has no failure of its own, the running one
\* has thrown after failures on gemini and openai; gemini was constructed
\* once and found cached by the later call.
C29_Witness ==
    /\ pc = "thrown"
    /\ parked.pc = "awaiting"
    /\ chain = parked.chain
    /\ Len(errors) = 2
    /\ parked.errors = <<>>
    /\ parked.invoked = <<"gemini">>
    /\ invoked = <<"gemini", "openai">>
    /\ Len(constructed["gemini"]) = 1
    /\ lastGet.hit

(***************************************************************************)
(* Claim C30                                                               *)
(***************************************************************************)

\* Every image region has its canvas element among the elements.
EveryRegionOnCanvas == OnCanvas = Range(images)

\* The relations that come from a rule on the shapes themselves.
ShapeRelations == {"points_to", "encircles", "overlaps"}

\* The relations that come from the centres alone.
CentreRelations == {"above", "below", "left_of", "right_of", "near"}

\* C30: once the relations are computed and every image region has its
\* canvas element among the elements, each relation of an annotation without
\* targetImageId is points_to, encircles or overlaps, so a direction or a
\* `near` belongs to an annotation with a targetImageId; no relation at all
\* is adjacent_to.
C30_UntargetedOnlyShapeRelations ==
    (stage = "analyzed" /\ EveryRegionOnCanvas) =>
        /\ \A a \in Range(annotations) :
              ~Targeted(a) =>
                  \A r \in Range(RelationsOf(a.id)) : r.relation \in ShapeRelations
        /\ \A r \in Range(relations) :
              /\ r.relation # "adjacent_to"
              /\ r.relation \in CentreRelations =>
                     \E a \in Range(annotations) :
                         a.id = r.annotationId /\ Targeted(a)

\* Both image regions on the canvas; one annotation without target has a
\* relation, and another, with a target, has a direction.
C30_Witness ==
    /\ stage = "analyzed"
    /\ EveryRegionOnCanvas
    /\ Len(images) = 2
    /\ \E a \in Range(annotations) :
          ~Targeted(a) /\ RelationsOf(a.id) # <<>>
    /\ \E a \in Range(annotations) :
          /\ Targeted(a)
          /\ RelationsOf(a.id) # <<>>
          /\ RelationsOf(a.id)[1].relation \in CentreRelations \ {"near"}

\* The same without the condition on the image regions.
C30_AlsoWithRegionsOffCanvas ==
    stage = "analyzed" =>
        \A a \in Range(annotations) :
            ~Targeted(a) =>
                \A r \in Range(RelationsOf(a.id)) : r.relation \in ShapeRelations

====
